---- MODULE Spec2Model ----
(***************************************************************************)
(* A model of the terminal engine of toad (src/src/toad/ansi.py): the      *)
(* ANSI tokenizer (ANSIParser, FEPattern), the escape decoder (ANSIStream) *)
(* and the buffer state machine (TerminalState).                           *)
(*                                                                         *)
(* Text is a sequence of characters, each character a string: printable    *)
(* characters stand for themselves, control characters are named ("ESC",   *)
(* "BEL", "BS", "LF", "CR").  Content is a sequence of cells, a cell a     *)
(* character with the style it was written with.  A Python None is the     *)
(* empty sequence, a present optional value v the sequence <<v>>.          *)
(***************************************************************************)
EXTENDS Integers, Sequences, FiniteSets, TLC

VARIABLES
    term,   \* the TerminalState
    ref,    \* a second TerminalState, written to in one piece
    pre,    \* term before the last operation
    last,   \* the last operation and its arguments
    steps,  \* the number of operations so far
    aux     \* what a specification records beside the engine

vars == <<term, ref, pre, last, steps, aux>>

----------------------------------------------------------------------------
(* Bounds of the exploration *)

\* operations performed in one behaviour of Spec
MaxSteps == 3

----------------------------------------------------------------------------
(* Python values *)

None == <<>>
Some(v) == <<v>>
IsNone(x) == x = <<>>
Val(x) == x[1]
\* Python's `x or d` for an optional integer
OrElse(x, d) == IF IsNone(x) \/ Val(x) = 0 THEN d ELSE Val(x)

\* `value` computed once and handed to Then: the assignment of a local
\* variable
Bind(value, Then(_)) == CHOOSE result \in {Then(v) : v \in {value}} : TRUE

\* max(0, row) as it would be without the clamp: its second argument
MaxUnclamped(a, b) == b

Max(a, b) == IF a >= b THEN a ELSE b
Min(a, b) == IF a <= b THEN a ELSE b

\* slice.indices: a bound of a slice of a sequence of length n
SliceIndex(i, n) == IF i < 0 THEN Max(i + n, 0) ELSE Min(i, n)

\* s[start:stop] of Python, both bounds given
PySlice(s, start, stop) ==
    LET a == SliceIndex(start, Len(s))
        b == SliceIndex(stop, Len(s))
    IN  IF b <= a THEN <<>> ELSE SubSeq(s, a + 1, b)

\* s[:stop] and s[start:]
PyTo(s, stop) == PySlice(s, 0, stop)
PyFrom(s, start) == PySlice(s, start, Len(s))

\* first position of c in s, 0 when absent
IndexOf(s, c) ==
    LET I == {i \in 1..Len(s) : s[i] = c}
    IN  IF I = {} THEN 0 ELSE CHOOSE i \in I : \A j \in I : i <= j

----------------------------------------------------------------------------
(* Characters *)

ESC == "ESC"
BEL == "BEL"
BS == "BS"
LF == "LF"
CR == "CR"
ST8 == "ST8"

Digits == <<"0", "1", "2", "3", "4", "5", "6", "7", "8", "9">>
Upper == <<"A", "B", "C", "D", "E", "F", "G", "H", "I", "J", "K", "L", "M",
           "N", "O", "P", "Q", "R", "S", "T", "U", "V", "W", "X", "Y", "Z">>
Lower == <<"a", "b", "c", "d", "e", "f", "g", "h", "i", "j", "k", "l", "m",
           "n", "o", "p", "q", "r", "s", "t", "u", "v", "w", "x", "y", "z">>
\* 0x20 .. 0x2F
Punct2 == <<" ", "!", "DQ", "#", "$", "%", "&", "'", "(", ")", "*", "+", ",",
            "-", ".", "/">>
\* 0x3A .. 0x40
Punct3 == <<":", ";", "<", "=", ">", "?", "@">>
\* 0x5B .. 0x60
Punct5 == <<"[", "\\", "]", "^", "_", "BQ">>
\* 0x7B .. 0x7E
Punct7 == <<"{", "|", "}", "~">>

\* the code point of a character
Ord(c) ==
    CASE c = ESC -> 27
      [] c = BEL -> 7
      [] c = BS -> 8
      [] c = LF -> 10
      [] c = CR -> 13
      [] c = ST8 -> 156
      [] IndexOf(Digits, c) > 0 -> 47 + IndexOf(Digits, c)
      [] IndexOf(Upper, c) > 0 -> 64 + IndexOf(Upper, c)
      [] IndexOf(Lower, c) > 0 -> 96 + IndexOf(Lower, c)
      [] IndexOf(Punct2, c) > 0 -> 31 + IndexOf(Punct2, c)
      [] IndexOf(Punct3, c) > 0 -> 57 + IndexOf(Punct3, c)
      [] IndexOf(Punct5, c) > 0 -> 90 + IndexOf(Punct5, c)
      [] IndexOf(Punct7, c) > 0 -> 122 + IndexOf(Punct7, c)

character_range(c, lo, hi) == lo <= Ord(c) /\ Ord(c) <= hi

IsDigit(c) == IndexOf(Digits, c) > 0
\* \w of a Python regular expression
IsWord(c) == IsDigit(c) \/ IndexOf(Upper, c) > 0 \/ IndexOf(Lower, c) > 0 \/ c = "_"

RECURSIVE ToInt(_)
\* int(s) of a non-empty string of digits
ToInt(s) ==
    IF Len(s) = 1 THEN IndexOf(Digits, s[1]) - 1
    ELSE 10 * ToInt(SubSeq(s, 1, Len(s) - 1)) + (IndexOf(Digits, s[Len(s)]) - 1)

\* int(s) succeeds on a non-empty string of digits and raises on the other
\* strings decoded here (none starts or ends with a blank or carries a sign)
IntOk(s) == s # <<>> /\ \A i \in 1..Len(s) : IsDigit(s[i])

RECURSIVE Split(_, _)
\* s.split(sep): the pieces of s between the separators
Split(s, sep) ==
    LET i == IndexOf(s, sep)
    IN  IF i = 0 THEN <<s>>
        ELSE <<SubSeq(s, 1, i - 1)>> \o Split(SubSeq(s, i + 1, Len(s)), sep)

----------------------------------------------------------------------------
(* Styles (textual.style.Style, as far as the engine uses it): every        *)
(* attribute is optional; a colour is a sequence of integers, <<n>> an ANSI *)
(* colour of the SGR table (<<-1>> the default colour), <<5, n>> a colour   *)
(* of the 256 colour table, <<2, r, g, b>> a true colour.                   *)

NULL_STYLE ==
    [bold |-> None, dim |-> None, italic |-> None, underline |-> None,
     underline2 |-> None, blink |-> None, reverse |-> None, strike |-> None,
     foreground |-> None, background |-> None, link |-> None]

\* Style.__add__: an attribute the right operand sets overrides the left one
StyleAdd(a, b) ==
    [f \in DOMAIN NULL_STYLE |-> IF IsNone(b[f]) THEN a[f] ELSE b[f]]

StyleWith(f, v) == [NULL_STYLE EXCEPT ![f] = Some(v)]

\* SGR_STYLE_MAP.get(code): None for a code that is not in the table
SGR_STYLE_MAP(code) ==
    CASE code = 1 -> Some(StyleWith("bold", TRUE))
      [] code = 2 -> Some(StyleWith("dim", TRUE))
      [] code = 3 -> Some(StyleWith("italic", TRUE))
      [] code = 4 -> Some(StyleWith("underline", TRUE))
      [] code \in {5, 6} -> Some(StyleWith("blink", TRUE))
      [] code \in {7, 8} -> Some(StyleWith("reverse", TRUE))
      [] code = 9 -> Some(StyleWith("strike", TRUE))
      [] code = 21 -> Some(StyleWith("underline2", TRUE))
      [] code = 22 -> Some([NULL_STYLE EXCEPT !.dim = Some(FALSE), !.bold = Some(FALSE)])
      [] code = 23 -> Some(StyleWith("italic", FALSE))
      [] code = 24 -> Some(StyleWith("underline", FALSE))
      [] code \in {25, 26} -> Some(StyleWith("blink", FALSE))
      [] code = 27 -> Some(StyleWith("reverse", FALSE))
      [] code \in {28, 51, 52, 53, 54, 55} -> Some(NULL_STYLE)
      [] code = 29 -> Some(StyleWith("strike", FALSE))
      [] code \in 30..37 -> Some(StyleWith("foreground", <<code - 30>>))
      [] code = 39 -> Some(StyleWith("foreground", <<-1>>))
      [] code \in 40..47 -> Some(StyleWith("background", <<code - 40>>))
      [] code = 49 -> Some(StyleWith("background", <<-1>>))
      [] code \in 90..97 -> Some(StyleWith("foreground", <<code - 82>>))
      [] code \in 100..107 -> Some(StyleWith("background", <<code - 92>>))
      [] OTHER -> None

RECURSIVE SgrLoop(_, _)
\* the `while codes` loop of _parse_sgr: None is a reset
SgrLoop(codes, style) ==
    LET n == Len(codes)
        rest(k) == SubSeq(codes, k + 1, n)
    IN  IF n = 0 THEN Some(style)
        ELSE IF n >= 5 /\ codes[1] = 38 /\ codes[2] = 2
        THEN SgrLoop(rest(5), StyleAdd(style,
                 StyleWith("foreground", <<2, codes[3], codes[4], codes[5]>>)))
        ELSE IF n >= 5 /\ codes[1] = 48 /\ codes[2] = 2
        THEN SgrLoop(rest(5), StyleAdd(style,
                 StyleWith("background", <<2, codes[3], codes[4], codes[5]>>)))
        ELSE IF n >= 3 /\ codes[1] = 38 /\ codes[2] = 5
        THEN SgrLoop(rest(3), StyleAdd(style, StyleWith("foreground", <<5, codes[3]>>)))
        ELSE IF n >= 3 /\ codes[1] = 48 /\ codes[2] = 5
        THEN SgrLoop(rest(3), StyleAdd(style, StyleWith("background", <<5, codes[3]>>)))
        ELSE IF codes[1] = 0 THEN None
        ELSE LET sgr_style == SGR_STYLE_MAP(codes[1])
             IN  SgrLoop(rest(1),
                         IF IsNone(sgr_style) THEN style
                         ELSE StyleAdd(style, Val(sgr_style)))

\* ANSIStream._parse_sgr: [raised] when int() fails on a parameter, else the
\* style (None for a reset)
_parse_sgr(sgr) ==
    LET pieces == Split(sgr, ";")
        ok == \A i \in 1..Len(pieces) : pieces[i] = <<>> \/ IntOk(pieces[i])
        codes == [i \in 1..Len(pieces) |->
                     IF pieces[i] = <<>> THEN 0 ELSE Min(ToInt(pieces[i]), 255)]
    IN  IF ~ok THEN [raised |-> TRUE, style |-> None]
        ELSE [raised |-> FALSE, style |-> SgrLoop(codes, NULL_STYLE)]

----------------------------------------------------------------------------
(* Commands (ANSICommand) *)

ANSICursor ==
    [kind |-> "cursor", delta_x |-> None, delta_y |-> None, absolute_x |-> None,
     absolute_y |-> None, text |-> None, replace |-> None, relative |-> FALSE,
     update_background |-> FALSE, auto_scroll |-> FALSE]
ANSINewLine == [kind |-> "newline"]
ANSIStyle(style) == [kind |-> "style", style |-> style]
ANSIClear(clear) == [kind |-> "clear", clear |-> clear]
ANSIScrollMargin(top, bottom) == [kind |-> "scroll_margin", top |-> top, bottom |-> bottom]
ANSIScroll(direction, lines) == [kind |-> "scroll", direction |-> direction, lines |-> lines]
ANSIFeatures ==
    [kind |-> "features", show_cursor |-> None, alternate_screen |-> None,
     bracketed_paste |-> None, cursor_blink |-> None, cursor_keys |-> None,
     replace_mode |-> None, auto_wrap |-> None]
ANSIMouseTracking(tracking, format, focus_events, alternate_scroll) ==
    [kind |-> "mouse", tracking |-> tracking, format |-> format,
     focus_events |-> focus_events, alternate_scroll |-> alternate_scroll]
ANSIWorkingDirectory(path) == [kind |-> "cwd", path |-> path]
ANSICharacterSet(dec, dec_invoke) ==
    [kind |-> "charset", dec |-> dec, dec_invoke |-> dec_invoke]

\* ANSIStream.ANSI_SEPARATORS
ANSI_SEPARATORS(separator) ==
    CASE separator = LF -> [ANSICursor EXCEPT !.delta_y = Some(1), !.absolute_x = Some(0)]
      [] separator = CR -> [ANSICursor EXCEPT !.absolute_x = Some(0)]
      [] separator = BS -> [ANSICursor EXCEPT !.delta_x = Some(-1)]

CLEAR_LINE_CURSOR_TO_END ==
    [ANSICursor EXCEPT !.replace = Some(<<None, Some(-1)>>), !.text = Some(<<>>),
                       !.update_background = TRUE]
CLEAR_LINE_CURSOR_TO_BEGINNING ==
    [ANSICursor EXCEPT !.replace = Some(<<Some(0), None>>), !.text = Some(<<>>),
                       !.update_background = TRUE]
CLEAR_LINE ==
    [ANSICursor EXCEPT !.replace = Some(<<Some(0), Some(-1)>>), !.text = Some(<<>>),
                       !.absolute_x = Some(0), !.update_background = TRUE]

\* `int(g or d)` for a string of digits g
IntOr(g, d) == IF g = <<>> THEN d ELSE ToInt(g)

\* n copies of a character
Repeat(c, n) == [i \in 1..n |-> c]

\* the first branch of _parse_csi, for a sequence the first regular
\* expression matches with groups g1, g2 and final byte
CsiA(g1, g2, final) ==
    LET cmd(c) == [raised |-> FALSE, cmd |-> Some(c)]
        nothing == [raised |-> FALSE, cmd |-> None]
        raise == [raised |-> TRUE, cmd |-> None]
    IN  CASE final = "A" -> cmd([ANSICursor EXCEPT !.delta_y = Some(0 - IntOr(g1, 1))])
          [] final = "B" -> cmd([ANSICursor EXCEPT !.delta_y = Some(IntOr(g1, 1))])
          [] final = "C" -> cmd([ANSICursor EXCEPT !.delta_x = Some(IntOr(g1, 1))])
          [] final = "D" -> cmd([ANSICursor EXCEPT !.delta_x = Some(0 - IntOr(g1, 1))])
          [] final = "E" -> cmd([ANSICursor EXCEPT !.absolute_x = Some(0),
                                                   !.delta_y = Some(IntOr(g1, 1))])
          [] final = "F" -> cmd([ANSICursor EXCEPT !.absolute_x = Some(0),
                                                   !.delta_y = Some(0 - IntOr(g1, 1))])
          [] final = "G" -> cmd([ANSICursor EXCEPT !.absolute_x = Some(IntOr(g1, 1) - 1)])
          [] final = "H" -> cmd([ANSICursor EXCEPT !.absolute_x = Some(IntOr(g2, 1) - 1),
                                                   !.absolute_y = Some(IntOr(g1, 1) - 1)])
          [] final = "P" -> cmd([ANSICursor EXCEPT
                                    !.replace = Some(<<None, Some(IntOr(g1, 1))>>),
                                    !.relative = TRUE, !.text = Some(<<>>)])
          [] final = "S" -> IF g1 = <<>> THEN raise ELSE cmd(ANSIScroll(-1, ToInt(g1)))
          [] final = "T" -> IF g1 = <<>> THEN raise ELSE cmd(ANSIScroll(1, ToInt(g1)))
          [] final = "d" -> cmd([ANSICursor EXCEPT !.absolute_y = Some(IntOr(g1, 1) - 1)])
          [] final = "X" -> cmd([ANSICursor EXCEPT
                                    !.replace = Some(<<None, Some(IntOr(g1, 1))>>),
                                    !.relative = TRUE,
                                    !.text = Some(Repeat(" ", IntOr(g1, 1)))])
          [] final = "J" /\ g1 \in {<<"0">>, <<>>} -> cmd(ANSIClear("cursor_to_end"))
          [] final = "J" /\ g1 = <<"1">> -> cmd(ANSIClear("cursor_to_beginning"))
          [] final = "J" /\ g1 = <<"2">> -> cmd(ANSIClear("screen"))
          [] final = "J" /\ g1 = <<"3">> -> cmd(ANSIClear("scrollback"))
          [] final = "K" /\ g1 \in {<<"0">>, <<>>} -> cmd(CLEAR_LINE_CURSOR_TO_END)
          [] final = "K" /\ g1 = <<"1">> -> cmd(CLEAR_LINE_CURSOR_TO_BEGINNING)
          [] final = "K" /\ g1 = <<"2">> -> cmd(CLEAR_LINE)
          [] final = "r" ->
               cmd(ANSIScrollMargin(
                     IF g1 # <<>> THEN Some(ToInt(g1) - 1) ELSE None,
                     IF g1 # <<>> THEN Some(IntOr(g2, 1) - 1) ELSE None))
          [] final = "h" /\ g1 = <<"4">> -> cmd([ANSIFeatures EXCEPT !.replace_mode = Some(TRUE)])
          [] final = "l" /\ g1 = <<"4">> -> cmd([ANSIFeatures EXCEPT !.replace_mode = Some(FALSE)])
          [] OTHER -> nothing

\* the loop as it would be if it stopped after the first mode of the list
MouseModesFirst(modes, enable, acc) ==
    IF modes = <<>> THEN acc
    ELSE LET mode == Head(modes)
         IN  CASE mode = <<"1", "0", "0", "0">> ->
                    [acc EXCEPT !.tracking = Some(IF enable THEN "button" ELSE "none")]
               [] mode = <<"1", "0", "0", "2">> ->
                    [acc EXCEPT !.tracking = Some(IF enable THEN "drag" ELSE "none")]
               [] mode = <<"1", "0", "0", "3">> ->
                    [acc EXCEPT !.tracking = Some(IF enable THEN "all" ELSE "none")]
               [] mode = <<"1", "0", "0", "6">> -> [acc EXCEPT !.format = Some("sgr")]
               [] mode = <<"1", "0", "1", "5">> -> [acc EXCEPT !.format = Some("urxvt")]
               [] mode = <<"1", "0", "0", "4">> -> [acc EXCEPT !.focus_events = Some(enable)]
               [] mode = <<"1", "0", "0", "7">> -> [acc EXCEPT !.alternate_scroll = Some(enable)]
               [] OTHER -> acc

RECURSIVE MouseModes(_, _, _)
\* the `for mode in modes` loop of _parse_csi
MouseModes(modes, enable, acc) ==
    IF modes = <<>> THEN acc
    ELSE LET mode == Head(modes)
             next ==
               CASE mode = <<"1", "0", "0", "0">> ->
                      [acc EXCEPT !.tracking = Some(IF enable THEN "button" ELSE "none")]
                 [] mode = <<"1", "0", "0", "2">> ->
                      [acc EXCEPT !.tracking = Some(IF enable THEN "drag" ELSE "none")]
                 [] mode = <<"1", "0", "0", "3">> ->
                      [acc EXCEPT !.tracking = Some(IF enable THEN "all" ELSE "none")]
                 [] mode = <<"1", "0", "0", "6">> -> [acc EXCEPT !.format = Some("sgr")]
                 [] mode = <<"1", "0", "1", "5">> -> [acc EXCEPT !.format = Some("urxvt")]
                 [] mode = <<"1", "0", "0", "4">> -> [acc EXCEPT !.focus_events = Some(enable)]
                 [] mode = <<"1", "0", "0", "7">> -> [acc EXCEPT !.alternate_scroll = Some(enable)]
                 [] OTHER -> acc
         IN  MouseModes(Tail(modes), enable, next)

\* longest prefix of s whose characters satisfy lo <= Ord <= hi
PrefixLen(s, lo, hi) ==
    LET bad == {i \in 1..Len(s) : ~character_range(s[i], lo, hi)}
    IN  IF bad = {} THEN Len(s) ELSE (CHOOSE i \in bad : \A j \in bad : i <= j) - 1

\* the second branch of _parse_csi, for parameter bytes p, intermediate bytes
\* i and a final byte
CsiB(p, i, final) ==
    LET cmd(c) == [raised |-> FALSE, cmd |-> Some(c)]
        nothing == [raised |-> FALSE, cmd |-> None]
        on == final = "h"
        flag(f) == cmd([ANSIFeatures EXCEPT ![f] = Some(on)])
        hl == i = <<>> /\ final \in {"h", "l"}
    IN  CASE hl /\ p = <<"?", "2", "5">> -> flag("show_cursor")
          [] hl /\ p = <<"?", "1", "0", "4", "9">> -> flag("alternate_screen")
          [] hl /\ p = <<"?", "2", "0", "0", "4">> -> flag("bracketed_paste")
          [] hl /\ p = <<"?", "1", "2">> -> flag("cursor_blink")
          [] hl /\ p = <<"?", "1">> -> flag("cursor_keys")
          [] hl /\ p = <<"?", "7">> -> flag("auto_wrap")
          [] final = "t" -> nothing
          [] OTHER ->
               IF /\ hl
                  /\ Len(p) >= 2
                  /\ p[1] = "?"
                  /\ \A k \in 2..Len(p) : IsDigit(p[k]) \/ p[k] = ";"
               THEN cmd(MouseModes(Split(Tail(p), ";"), on,
                                   ANSIMouseTracking(None, None, None, None)))
               ELSE nothing

\* ANSIStream._parse_csi of the sequence ESC [ body final
_parse_csi(body, final) ==
    LET k == IndexOf(body, ";")
        g1 == IF k = 0 THEN body ELSE SubSeq(body, 1, k - 1)
        g2 == IF k = 0 THEN <<>> ELSE SubSeq(body, k + 1, Len(body))
        digits(g) == \A i \in 1..Len(g) : IsDigit(g[i])
        np == PrefixLen(body, 48, 63)
        p == SubSeq(body, 1, np)
        i == SubSeq(body, np + 1, Len(body))
    IN  IF IsWord(final) /\ digits(g1) /\ digits(g2) THEN CsiA(g1, g2, final)
        ELSE IF PrefixLen(i, 33, 47) = Len(i) /\ character_range(final, 64, 126)
        THEN CsiB(p, i, final)
        ELSE [raised |-> FALSE, cmd |-> None]

----------------------------------------------------------------------------
(* The tokenizer: FEPattern.check and ANSIParser.parse, each generator a    *)
(* state advanced one character at a time.                                  *)

\* FEPattern.check right after `store("\x1b")`
FEStart == [st |-> "start", sequence |-> <<ESC>>, last_character |-> ""]

\* One character sent to FEPattern.check.  The result is "more" while the
\* generator waits for another character, "fail" when it returns False and
\* the token <<type, text>> it returns otherwise.
FEStep(fe, character) ==
    LET stored == Append(fe.sequence, character)
        more(st) == [fe |-> [fe EXCEPT !.st = st, !.sequence = stored], result |-> "more"]
        done(type, text) == [fe |-> fe, result |-> <<type, text>>]
    IN  CASE fe.st = "start" ->
               CASE character = "[" -> more("csi")
                 [] character = "]" -> more("osc")
                 [] character = "P" -> more("dcs")
                 [] character \in {"(", ")", "*", "+", "-", "."} -> more("csd")
                 [] character = "#" -> more("la")
                 [] character = " " -> more("sp")
                 [] OTHER -> done("control", <<character>>)
          [] fe.st = "csi" ->
               IF ~character_range(character, 64, 126) THEN more("csi")
               ELSE done("csi", stored)
          [] fe.st = "osc" ->
               IF character \notin {ESC, BEL, ST8}
               THEN IF fe.last_character = ESC /\ character = "\\"
                    THEN done("osc", Append(stored, character))
                    ELSE [fe |-> [fe EXCEPT !.sequence = stored,
                                            !.last_character = character],
                          result |-> "more"]
               ELSE done("osc", stored)
          [] fe.st = "dcs" ->
               IF character # ST8
               THEN IF fe.last_character = ESC /\ character = "\\"
                    THEN done("dcs", Append(stored, character))
                    ELSE [fe |-> [fe EXCEPT !.sequence = stored,
                                            !.last_character = character],
                          result |-> "more"]
               ELSE done("dcs", stored)
          [] fe.st = "csd" ->
               IF ~character_range(character, 48, 126)
               THEN [fe |-> fe, result |-> "fail"]
               ELSE done("csd", stored)
          [] fe.st = "la" -> done("la", stored)
          [] fe.st = "sp" -> done("sp", stored)

\* ANSIParser: waiting in read_until
ParserStart == [mode |-> "until", fe |-> FEStart, osc_data |-> <<>>, held |-> FALSE]

\* read_until(NEW_LINE, CARRIAGE_RETURN, ESCAPE, BACKSPACE)
IsSeparator(character) == character \in {LF, CR, ESC, BS}

\* One character of input to ANSIParser.parse: the parser after it and the
\* tokens parse yields (content runs are gathered by feed).
ParseStep(parser, character) ==
    LET stay(q) == [parser |-> q, tokens |-> <<>>]
        yield(type, text) == [parser |-> ParserStart, tokens |-> <<<<type, text>>>>]
    IN  CASE parser.mode = "until" ->
               IF character = ESC
               THEN stay([parser EXCEPT !.mode = "patterns", !.fe = FEStart])
               ELSE yield("separator", <<character>>)
          [] parser.mode = "patterns" ->
               LET r == FEStep(parser.fe, character)
               IN  IF r.result = "more" THEN stay([parser EXCEPT !.fe = r.fe])
                   ELSE IF r.result = "fail" THEN stay(ParserStart)
                   ELSE IF r.result[1] = "osc"
                   THEN stay([parser EXCEPT !.mode = "regex", !.osc_data = <<>>,
                                            !.held = FALSE])
                   ELSE yield(r.result[1], r.result[2])
          [] parser.mode = "regex" ->
               IF parser.held /\ character = "\\" THEN yield("osc", parser.osc_data)
               ELSE LET data == IF parser.held THEN Append(parser.osc_data, ESC)
                                ELSE parser.osc_data
                    IN  IF character = BEL THEN yield("osc", data)
                        ELSE IF character = ESC
                        THEN stay([parser EXCEPT !.osc_data = data, !.held = TRUE])
                        ELSE stay([parser EXCEPT !.osc_data = Append(data, character),
                                                 !.held = FALSE])

----------------------------------------------------------------------------
(* ANSIStream: the decoder's pen and its parser *)

StreamStart == [parser |-> ParserStart, style |-> NULL_STYLE]

DEC_SLOTS(c) ==
    CASE c = "(" -> Some(0)
      [] c = ")" -> Some(1)
      [] c = "*" -> Some(2)
      [] c = "+" -> Some(3)
      [] c = "-" -> Some(1)
      [] c = "." -> Some(2)
      [] OTHER -> None

DECInvoke == [gl |-> None, gr |-> None, shift |-> None]

DEC_INVOKE_MAP(c) ==
    CASE c = "n" -> Some([DECInvoke EXCEPT !.gl = Some(2)])
      [] c = "o" -> Some([DECInvoke EXCEPT !.gl = Some(3)])
      [] c = "~" -> Some([DECInvoke EXCEPT !.gr = Some(1)])
      [] c = "}" -> Some([DECInvoke EXCEPT !.gr = Some(2)])
      [] c = "|" -> Some([DECInvoke EXCEPT !.gr = Some(3)])
      [] c = "N" -> Some([DECInvoke EXCEPT !.shift = Some(2)])
      [] c = "O" -> Some([DECInvoke EXCEPT !.shift = Some(3)])
      [] OTHER -> None

\* the pen as it would be after CSI ... m if a decoded style replaced the
\* pen: self.style = sgr_style
SgrPenReplace(style, sgr_style) ==
    IF IsNone(sgr_style) THEN NULL_STYLE ELSE Val(sgr_style)

\* the pen after a CSI ... m: `self.style = NULL_STYLE` on a reset, else
\* `self.style += sgr_style`
SgrPen(style, sgr_style) ==
    IF IsNone(sgr_style) THEN NULL_STYLE ELSE StyleAdd(style, Val(sgr_style))

\* the command of a content token as it would be without delta_x
ContentCommandNoAdvance(text) ==
    [ANSICursor EXCEPT !.text = Some(text)]

\* the command of a content token
ContentCommand(text) ==
    [ANSICursor EXCEPT !.delta_x = Some(Len(text)), !.text = Some(text)]

\* ANSIStream.on_token: the pen after the token, the commands it yields, and
\* whether decoding raised
on_token(style, token) ==
    LET type == token[1]
        text == token[2]
        out(st, cmds) == [style |-> st, cmds |-> cmds, raised |-> FALSE]
        raise == [style |-> style, cmds |-> <<>>, raised |-> TRUE]
    IN  CASE type = "separator" ->
               IF text = <<LF>> THEN out(style, <<ANSINewLine>>)
               ELSE out(style, <<ANSI_SEPARATORS(text[1])>>)
          [] type = "osc" ->
               LET parts == Split(PyFrom(text, 1), ";")
                   n == Len(parts)
               IN  IF n >= 2 /\ parts[1] = <<"8">>
                   THEN out(StyleAdd(style,
                                     IF parts[n] = <<>> THEN NULL_STYLE
                                     ELSE StyleWith("link", parts[n])), <<>>)
                   ELSE IF n >= 2 /\ parts[1] = <<"2", "0", "2", "5">>
                   THEN out(style, <<ANSIWorkingDirectory(parts[2])>>)
                   ELSE out(style, <<>>)
          [] type = "csi" ->
               IF text[Len(text)] = "m"
               THEN LET sgr == _parse_sgr(SubSeq(text, 3, Len(text) - 1))
                        pen == SgrPen(style, sgr.style)
                    IN  IF sgr.raised THEN raise ELSE out(pen, <<ANSIStyle(pen)>>)
               ELSE LET csi == _parse_csi(SubSeq(text, 3, Len(text) - 1), text[Len(text)])
                    IN  IF csi.raised THEN raise ELSE out(style, csi.cmd)
          [] type = "dec" ->
               IF Len(text) # 2 \/ IsNone(DEC_SLOTS(text[1])) THEN raise
               ELSE out(style, <<ANSICharacterSet(
                                   Some([slot |-> Val(DEC_SLOTS(text[1])),
                                         character_set |-> text[2]]), None)>>)
          [] type = "dev_invoke" ->
               IF text = <<>> \/ IsNone(DEC_INVOKE_MAP(text[1])) THEN raise
               ELSE out(style, <<ANSICharacterSet(None, DEC_INVOKE_MAP(text[1]))>>)
          [] type = "control" ->
               IF text = <<"M">>
               THEN out(style, <<[ANSICursor EXCEPT !.delta_y = Some(-1), !.auto_scroll = TRUE]>>)
               ELSE IF text = <<"D">>
               THEN out(style, <<[ANSICursor EXCEPT !.delta_y = Some(1), !.auto_scroll = TRUE]>>)
               ELSE out(style, <<>>)
          [] type = "content" ->
               out(style, <<ContentCommand(text)>>)
          [] OTHER -> out(style, <<>>)

----------------------------------------------------------------------------
(* Content (textual.content.Content): a sequence of styled cells *)

EMPTY_LINE == <<>>

\* Content.styled(text, style)
Styled(text, style) == [i \in 1..Len(text) |-> [ch |-> text[i], style |-> style]]

\* Content.pad_right(count): unstyled spaces
PadRight(content, count) == content \o Styled(Repeat(" ", count), NULL_STYLE)

\* Content.plain
Plain(content) == [i \in 1..Len(content) |-> content[i].ch]

----------------------------------------------------------------------------
(* LineFold, LineRecord, ScrollMargin, Buffer, DECState, MouseTracking *)

LineFold(line_no, line_offset, offset, content, updates) ==
    [line_no |-> line_no, line_offset |-> line_offset, offset |-> offset,
     content |-> content, updates |-> updates]

LineRecord(content, style, folds, updates) ==
    [content |-> content, style |-> style, folds |-> folds, updates |-> updates]

ScrollMargin(top, bottom) == [top |-> top, bottom |-> bottom]

\* ScrollMargin.get_line_range
get_line_range(margin, height) ==
    <<OrElse(margin.top, 0),
      IF IsNone(margin.bottom) THEN height - 1 ELSE Val(margin.bottom)>>

\* Buffer()
NewBuffer ==
    [lines |-> <<>>, line_to_fold |-> <<>>, folded_lines |-> <<>>,
     scroll_margin |-> ScrollMargin(Some(0), Some(0)),
     cursor_line |-> 0, cursor_offset |-> 0, max_line_width |-> 0, updates |-> 0]

RECURSIVE CursorPosition(_, _, _, _)
\* the loop shared by Buffer.cursor and get_cursor_line_offset: the length
\* of the folds before fold number cursor_line_offset, plus cursor_offset
CursorPosition(folds, k, cursor_line_offset, cursor_offset) ==
    IF k > Len(folds) THEN 0
    ELSE IF k - 1 = cursor_line_offset THEN cursor_offset
    ELSE Len(folds[k].content)
           + CursorPosition(folds, k + 1, cursor_line_offset, cursor_offset)

\* Buffer.cursor: the cursor as (line_no, position) of the unfolded lines
BufferCursor(buffer) ==
    IF buffer.cursor_line >= Len(buffer.folded_lines)
    THEN <<Len(buffer.folded_lines), 0>>
    ELSE LET cursor_folded_line == buffer.folded_lines[buffer.cursor_line + 1]
             line == buffer.lines[cursor_folded_line.line_no + 1]
         IN  <<cursor_folded_line.line_no,
               CursorPosition(line.folds, 1, cursor_folded_line.line_offset,
                              buffer.cursor_offset)>>

\* Buffer.clear
BufferClear(buffer, updates) ==
    [buffer EXCEPT !.lines = <<>>, !.line_to_fold = <<>>, !.folded_lines = <<>>,
                   !.cursor_line = 0, !.cursor_offset = 0, !.max_line_width = 0,
                   !.updates = updates]

\* DECState()
NewDECState == [slots |-> <<"B", "B", "<", "0">>, gl_slot |-> 0, gr_slot |-> 2,
                shift |-> None]

\* DECState.update
DECUpdate(dec_state, dec, dec_invoke) ==
    IF ~IsNone(dec)
    THEN [dec_state EXCEPT !.slots[Val(dec).slot + 1] = Val(dec).character_set]
    ELSE IF ~IsNone(dec_invoke)
    THEN IF OrElse(Val(dec_invoke).shift, 0) # 0
         THEN [dec_state EXCEPT !.shift = Val(dec_invoke).shift]
         ELSE IF ~IsNone(Val(dec_invoke).gl)
         THEN [dec_state EXCEPT !.gl_slot = Val(Val(dec_invoke).gl)]
         ELSE IF ~IsNone(Val(dec_invoke).gr)
         THEN [dec_state EXCEPT !.gr_slot = Val(Val(dec_invoke).gr)]
         ELSE dec_state
    ELSE dec_state

\* toad.dec.CHARSET_MAP.get: the translation table of a character set, None
\* when none is registered.  Only the DEC special graphics set "0" has one.
CHARSET_MAP(character_set) ==
    IF character_set = "0" THEN Some("graphics") ELSE None

\* str.translate of one character through the table of a character set
TranslateChar(table, c) ==
    IF table = "graphics"
    THEN CASE c = "q" -> "HLINE"
           [] c = "x" -> "VLINE"
           [] OTHER -> c
    ELSE c

TranslateText(table, text) == [i \in 1..Len(text) |-> TranslateChar(table, text[i])]

\* DECState.translate: the translated text and the state after the call;
\* text[0] raises on an empty text
DECTranslate(dec_state, text) ==
    LET shifted == IF IsNone(dec_state.shift) THEN None
                   ELSE CHARSET_MAP(dec_state.slots[Val(dec_state.shift) + 1])
        first == ~IsNone(shifted)
        gl == CHARSET_MAP(dec_state.slots[dec_state.gl_slot + 1])
        translated == IF IsNone(gl) THEN text ELSE TranslateText(Val(gl), text)
    IN  IF first /\ text = <<>>
        THEN [raised |-> TRUE, text |-> text, dec_state |-> dec_state]
        ELSE IF first
        THEN [raised |-> FALSE,
              text |-> <<TranslateChar(Val(shifted), text[1])>> \o translated,
              dec_state |-> [dec_state EXCEPT !.shift = None]]
        ELSE [raised |-> FALSE, text |-> translated, dec_state |-> dec_state]

\* MouseTracking()
NewMouseTracking == [tracking |-> "none", format |-> "normal",
                     focus_events |-> FALSE, alternate_scroll |-> FALSE]

----------------------------------------------------------------------------
(* TerminalState.  status is "ok" while every call has returned, "raised"   *)
(* once a call has raised an exception and "hung" once a call loops for     *)
(* ever.                                                                    *)

\* TerminalState.__init__
NewTerminalState(width, height) ==
    [stream |-> StreamStart, width |-> width, height |-> height,
     style |-> NULL_STYLE, show_cursor |-> TRUE, alternate_screen |-> FALSE,
     bracketed_paste |-> FALSE, cursor_blink |-> FALSE, cursor_keys |-> FALSE,
     replace_mode |-> TRUE, auto_wrap |-> TRUE, current_directory |-> <<>>,
     scrollback_buffer |-> NewBuffer, alternate_buffer |-> NewBuffer,
     dec_state |-> NewDECState, mouse_tracking_state |-> NewMouseTracking,
     updates |-> 0, status |-> "ok"]

\* TerminalState.buffer
Buf(ts) == IF ts.alternate_screen THEN ts.alternate_buffer ELSE ts.scrollback_buffer

\* assignment through the reference TerminalState.buffer returns
SetBuf(ts, buffer) ==
    IF ts.alternate_screen THEN [ts EXCEPT !.alternate_buffer = buffer]
    ELSE [ts EXCEPT !.scrollback_buffer = buffer]

\* TerminalState.advance_updates
advance_updates(ts) == [ts EXCEPT !.updates = @ + 1]

\* TerminalState.screen_start_line_no
screen_start_line_no(ts) == Len(Buf(ts).lines) - ts.height

\* list(range(width, line_length + 1, width)): the range as it would be if
\* it took the end of the line in
divide_offsets_inclusive(width, line_length) ==
    [k \in 1..(line_length \div width) |-> k * width]

\* list(range(width, line_length, width)), for 0 < width < line_length
divide_offsets(width, line_length) ==
    [k \in 1..((line_length - 1) \div width) |-> k * width]

\* Content.divide(offsets): the pieces of the line between the offsets
Divide(line, offsets) ==
    LET cuts == <<0>> \o offsets \o <<Len(line)>>
    IN  [k \in 1..(Len(offsets) + 1) |-> SubSeq(line, cuts[k] + 1, cuts[k + 1])]

\* TerminalState._fold_line
_fold_line(ts, line_no, line, width) ==
    LET updates == ts.updates
        line_length == Len(line)
    IN  IF ~ts.auto_wrap THEN <<LineFold(line_no, 0, 0, line, updates)>>
        ELSE IF width = 0 THEN <<LineFold(0, 0, 0, line, updates)>>
        ELSE IF line_length <= width THEN <<LineFold(line_no, 0, 0, line, updates)>>
        ELSE Bind(divide_offsets(width, line_length), LAMBDA divided :
             Bind(Divide(line, divided), LAMBDA folded_lines :
             Bind(<<0>> \o divided, LAMBDA offsets :
               [k \in 1..Min(Len(offsets), Len(folded_lines)) |->
                   LineFold(line_no, k - 1, offsets[k], folded_lines[k], updates)])))

\* TerminalState.add_line on the active buffer
add_line(ts, content, style) ==
    Bind(advance_updates(ts), LAMBDA t1 :
    Bind(Buf(t1), LAMBDA buffer :
    Bind(_fold_line(t1, Len(buffer.lines), content, t1.width), LAMBDA folds :
      SetBuf(t1, [buffer EXCEPT
          !.lines = Append(@, LineRecord(content, style, folds, t1.updates)),
          !.line_to_fold = Append(@, Len(buffer.folded_lines)),
          !.folded_lines = @ \o folds,
          !.updates = t1.updates]))))

RECURSIVE add_lines(_, _, _)
\* add_line(buffer, EMPTY_LINE, style) called count times
add_lines(ts, style, count) ==
    IF count <= 0 THEN ts
    ELSE Bind(add_line(ts, EMPTY_LINE, style), LAMBDA t1 :
         Bind(count - 1, LAMBDA left : add_lines(t1, style, left)))

\* the refold loop as it would be if it rebuilt the entry of the updated
\* line only: for line_no in range(line_index, line_index + 1)
RefoldOneLine(lines, line_no, line_to_fold, folded_lines) ==
    IF line_no >= Len(lines) THEN <<line_to_fold, folded_lines>>
    ELSE <<Append(line_to_fold, Len(folded_lines)),
           folded_lines \o lines[line_no + 1].folds>>

RECURSIVE Refold(_, _, _, _)
\* the last loop of update_line: line_to_fold and folded_lines rebuilt from
\* line number line_no on
Refold(lines, line_no, line_to_fold, folded_lines) ==
    IF line_no >= Len(lines) THEN <<line_to_fold, folded_lines>>
    ELSE Bind(Append(line_to_fold, Len(folded_lines)), LAMBDA index :
         Bind(folded_lines \o lines[line_no + 1].folds, LAMBDA folds :
           Refold(lines, line_no + 1, index, folds)))

\* TerminalState.update_line on the active buffer
update_line(ts, line_index, line) ==
    Bind(add_lines(ts, NULL_STYLE, line_index - Len(Buf(ts).lines) + 1), LAMBDA t1 :
    Bind(_fold_line(t1, line_index, line, t1.width), LAMBDA folds :
    Bind(advance_updates(t1), LAMBDA t2 :
    Bind(Buf(t2), LAMBDA buffer :
    Bind([buffer.lines EXCEPT ![line_index + 1] =
             [@ EXCEPT !.content = line, !.folds = folds, !.updates = t2.updates]],
         LAMBDA lines :
    Bind(Refold(lines, line_index,
                SubSeq(buffer.line_to_fold, 1, line_index),
                SubSeq(buffer.folded_lines, 1, buffer.line_to_fold[line_index + 1])),
         LAMBDA rebuilt :
      SetBuf(t2, [buffer EXCEPT
          !.max_line_width = Max(Len(line), @),
          !.lines = lines,
          !.line_to_fold = rebuilt[1],
          !.folded_lines = rebuilt[2]])))))))

\* TerminalState._line_updated on the active buffer
_line_updated(ts, line_no) ==
    Bind(advance_updates(ts), LAMBDA t1 :
    Bind(Buf(t1), LAMBDA buffer :
      IF line_no < Len(buffer.lines)
      THEN SetBuf(t1, [buffer EXCEPT !.lines[line_no + 1].updates = t1.updates])
      ELSE t1))

RECURSIVE ReflowLinesUnstamped(_, _)
\* the loop as it would be if it refolded the lines and left their updates
\* values as they were
ReflowLinesUnstamped(ts, line_no) ==
    IF line_no >= Len(Buf(ts).lines) THEN ts
    ELSE Bind(Buf(ts), LAMBDA buffer :
         Bind(_fold_line(ts, line_no, buffer.lines[line_no + 1].content, ts.width),
              LAMBDA folds :
         Bind(SetBuf(ts, [buffer EXCEPT
                  !.lines[line_no + 1] = [@ EXCEPT !.folds = folds],
                  !.line_to_fold = Append(@, Len(buffer.folded_lines)),
                  !.folded_lines = @ \o folds]),
              LAMBDA t2 : ReflowLinesUnstamped(t2, line_no + 1))))

RECURSIVE ReflowLines(_, _)
\* the `for line_no, line_record` loop of _reflow, from line number line_no
ReflowLines(ts, line_no) ==
    IF line_no >= Len(Buf(ts).lines) THEN ts
    ELSE Bind(Buf(ts), LAMBDA buffer :
         Bind(_fold_line(ts, line_no, buffer.lines[line_no + 1].content, ts.width),
              LAMBDA folds :
         Bind(advance_updates(ts), LAMBDA t1 :
         Bind(SetBuf(t1, [buffer EXCEPT
                  !.lines[line_no + 1] = [@ EXCEPT !.folds = folds,
                                                   !.updates = t1.updates],
                  !.line_to_fold = Append(@, Len(buffer.folded_lines)),
                  !.folded_lines = @ \o folds]),
              LAMBDA t2 : ReflowLines(t2, line_no + 1)))))

\* the fold of a line that holds cursor_offset: the last fold that starts at
\* or before it, None when there is none
FoldOfOffset(folds, cursor_offset) ==
    LET at == {k \in 1..Len(folds) : cursor_offset >= folds[k].offset}
    IN  IF at = {} THEN None ELSE Some(folds[CHOOSE k \in at : \A j \in at : j <= k])

\* _reflow as it would be without buffer.folded_lines.clear() and
\* buffer.line_to_fold.clear()
_reflow_no_clear(ts) ==
    Bind(BufferCursor(Buf(ts)), LAMBDA cursor :
    Bind(ReflowLines(ts, 0), LAMBDA t1 :
    Bind(Buf(t1), LAMBDA b1 :
      LET cursor_line == cursor[1]
          cursor_offset == cursor[2]
          fold == FoldOfOffset(b1.lines[cursor_line + 1].folds, cursor_offset)
      IN  IF Buf(ts).lines = <<>> THEN ts
          ELSE IF cursor_line >= Len(b1.lines)
          THEN SetBuf(t1, [b1 EXCEPT !.cursor_line = Len(b1.lines), !.cursor_offset = 0])
          ELSE IF IsNone(fold)
          THEN SetBuf(t1, [b1 EXCEPT !.cursor_line = b1.line_to_fold[cursor_line + 1],
                                     !.cursor_offset = 0])
          ELSE SetBuf(t1, [b1 EXCEPT
                   !.cursor_line = b1.line_to_fold[cursor_line + 1] + Val(fold).line_offset,
                   !.cursor_offset = cursor_offset - Val(fold).offset]))))

\* TerminalState._reflow
_reflow(ts) ==
    IF Buf(ts).lines = <<>> THEN ts
    ELSE Bind(BufferCursor(Buf(ts)), LAMBDA cursor :
         Bind(ReflowLines(SetBuf(ts, [Buf(ts) EXCEPT !.folded_lines = <<>>,
                                                      !.line_to_fold = <<>>]), 0),
              LAMBDA t1 :
         Bind(Buf(t1), LAMBDA b1 :
           LET cursor_line == cursor[1]
               cursor_offset == cursor[2]
               fold == FoldOfOffset(b1.lines[cursor_line + 1].folds, cursor_offset)
           IN  IF cursor_line >= Len(b1.lines)
               THEN SetBuf(t1, [b1 EXCEPT !.cursor_line = Len(b1.lines),
                                          !.cursor_offset = 0])
               ELSE IF IsNone(fold)
               THEN SetBuf(t1, [b1 EXCEPT
                        !.cursor_line = b1.line_to_fold[cursor_line + 1],
                        !.cursor_offset = 0])
               ELSE SetBuf(t1, [b1 EXCEPT
                        !.cursor_line = b1.line_to_fold[cursor_line + 1]
                                          + Val(fold).line_offset,
                        !.cursor_offset = cursor_offset - Val(fold).offset]))))

\* update_size as it would be if it reflowed both buffers
update_size_both(ts, width, height) ==
    Bind(_reflow([ts EXCEPT !.width = width, !.height = height]), LAMBDA t1 :
    Bind(_reflow([t1 EXCEPT !.alternate_screen = ~ts.alternate_screen]), LAMBDA t2 :
      [t2 EXCEPT !.alternate_screen = ts.alternate_screen]))

\* TerminalState.update_size, with both dimensions given
update_size(ts, width, height) ==
    Bind([ts EXCEPT !.width = width, !.height = height], LAMBDA t1 : _reflow(t1))

\* TerminalState.get_cursor_line_offset
get_cursor_line_offset(buffer) ==
    LET cursor_folded_line == buffer.folded_lines[buffer.cursor_line + 1]
        line == buffer.lines[cursor_folded_line.line_no + 1]
    IN  CursorPosition(line.folds, 1, cursor_folded_line.line_offset,
                       buffer.cursor_offset)

\* clear_buffer as it would be without buffer.clear: the blank lines added
\* below the lines there are
clear_buffer_append(ts, clear) ==
    IF clear = "screen"
    THEN Bind(advance_updates(ts), LAMBDA t1 : add_lines(t1, ts.style, ts.height))
    ELSE ts

\* TerminalState.clear_buffer
clear_buffer(ts, clear) ==
    IF clear = "screen"
    THEN Bind(advance_updates(ts), LAMBDA t1 :
         Bind(SetBuf(t1, BufferClear(Buf(t1), t1.updates)), LAMBDA t2 :
           add_lines(t2, ts.style, ts.height)))
    ELSE ts

RECURSIVE ScrollLines(_, _, _, _, _, _)
\* the loops of scroll_buffer: line numbers line_no .. stop in steps of step
\* (stop is the last line number visited)
ScrollLines(ts, direction, lines, line_no, stop, margin) ==
    LET buffer == Buf(ts)
        copy_line_no == IF direction = -1 THEN line_no + lines ELSE line_no - lines
        outside == IF direction = -1 THEN copy_line_no > margin[2]
                   ELSE copy_line_no < margin[1]
        copy_line == IF outside \/ copy_line_no >= Len(buffer.lines) THEN EMPTY_LINE
                     ELSE buffer.lines[copy_line_no + 1].content
        step == IF direction = -1 THEN 1 ELSE -1
        done == IF direction = -1 THEN line_no > stop ELSE line_no < stop
    IN  IF done THEN ts
        ELSE Bind(copy_line, LAMBDA line :
             Bind(update_line(ts, line_no, line), LAMBDA t1 :
             Bind(line_no + step, LAMBDA next_line_no :
               ScrollLines(t1, direction, lines, next_line_no, stop, margin))))

\* scroll_buffer as it would be if it scrolled the whole screen whatever
\* the margin
scroll_buffer_screen(ts, direction, lines) ==
    Bind(<<0, ts.height - 1>>, LAMBDA margin :
      IF direction = -1
      THEN ScrollLines(ts, direction, lines, margin[1], margin[2], margin)
      ELSE ScrollLines(ts, direction, lines, margin[2], margin[1], margin))

\* TerminalState.scroll_buffer
scroll_buffer(ts, direction, lines) ==
    Bind(get_line_range(Buf(ts).scroll_margin, ts.height), LAMBDA margin :
      IF direction = -1
      THEN ScrollLines(ts, direction, lines, margin[1], margin[2], margin)
      ELSE ScrollLines(ts, direction, lines, margin[2], margin[1], margin))

\* ANSICursor.get_replace_offsets
get_replace_offsets(cmd, cursor_offset, line_length) ==
    LET replace == Val(cmd.replace)
        s0 == IF IsNone(replace[1]) THEN cursor_offset ELSE Val(replace[1])
        e0 == IF IsNone(replace[2]) THEN cursor_offset ELSE Val(replace[2])
        replace_start == IF s0 < 0 THEN line_length + s0 ELSE s0
        replace_end == IF e0 < 0 THEN line_length + e0 ELSE e0
    IN  IF cmd.relative THEN <<cursor_offset + replace_start, cursor_offset + replace_end>>
        ELSE <<replace_start, replace_end>>

\* the text block as it would be if it always inserted at the cursor, whatever
\* replace_mode holds
WriteTextInsert(ts, cmd, line_no) ==
    Bind(DECTranslate(ts.dec_state, Val(cmd.text)), LAMBDA tr :
    Bind(Styled(tr.text, ts.style), LAMBDA content :
    Bind(Buf(ts), LAMBDA buffer :
    Bind(get_cursor_line_offset(buffer), LAMBDA cursor_line_offset :
    Bind(IF cursor_line_offset > Len(buffer.lines[line_no + 1].content)
         THEN PadRight(buffer.lines[line_no + 1].content,
                       cursor_line_offset - Len(buffer.lines[line_no + 1].content))
         ELSE buffer.lines[line_no + 1].content,
         LAMBDA padded :
    Bind(IF ~IsNone(cmd.replace)
         THEN Bind(get_replace_offsets(cmd, cursor_line_offset, Len(padded)),
                   LAMBDA offsets :
              Bind(PyTo(padded, offsets[1]) \o content \o PyFrom(padded, offsets[2] + 1),
                   LAMBDA replaced :
                IF Len(replaced) < ts.width
                THEN replaced \o Styled(Repeat(" ", ts.width - Len(replaced)), ts.style)
                ELSE replaced))
         ELSE IF cursor_line_offset = Len(padded) THEN padded \o content
         ELSE PyTo(padded, cursor_line_offset) \o content
                \o PyFrom(padded, cursor_line_offset),
         LAMBDA updated_line :
      LET folded_line == buffer.folded_lines[buffer.cursor_line + 1]
          previous_content == folded_line.content
      IN  IF tr.raised THEN [ts EXCEPT !.status = "raised"]
          ELSE Bind(update_line([ts EXCEPT !.dec_state = tr.dec_state], line_no,
                                updated_line),
                    LAMBDA t1 :
                      IF previous_content # folded_line.content
                      THEN Bind(advance_updates(t1), LAMBDA t2 :
                             SetBuf(t2, [Buf(t2) EXCEPT !.updates = t2.updates]))
                      ELSE t1)))))))

\* the `if text is not None` block of the ANSICursor case, the cursor on
\* line line_no
WriteText(ts, cmd, line_no) ==
    Bind(DECTranslate(ts.dec_state, Val(cmd.text)), LAMBDA tr :
    Bind(Styled(tr.text, ts.style), LAMBDA content :
    Bind(Buf(ts), LAMBDA buffer :
    Bind(get_cursor_line_offset(buffer), LAMBDA cursor_line_offset :
    Bind(IF cursor_line_offset > Len(buffer.lines[line_no + 1].content)
         THEN PadRight(buffer.lines[line_no + 1].content,
                       cursor_line_offset - Len(buffer.lines[line_no + 1].content))
         ELSE buffer.lines[line_no + 1].content,
         LAMBDA padded :
    Bind(IF ~IsNone(cmd.replace)
         THEN Bind(get_replace_offsets(cmd, cursor_line_offset, Len(padded)),
                   LAMBDA offsets :
              Bind(PyTo(padded, offsets[1]) \o content \o PyFrom(padded, offsets[2] + 1),
                   LAMBDA replaced :
                IF Len(replaced) < ts.width
                THEN replaced \o Styled(Repeat(" ", ts.width - Len(replaced)), ts.style)
                ELSE replaced))
         ELSE IF cursor_line_offset = Len(padded) THEN padded \o content
         ELSE IF ts.replace_mode
         THEN PyTo(padded, cursor_line_offset) \o content
                \o PyFrom(padded, cursor_line_offset + Len(content))
         ELSE PyTo(padded, cursor_line_offset) \o content
                \o PyFrom(padded, cursor_line_offset),
         LAMBDA updated_line :
      LET folded_line == buffer.folded_lines[buffer.cursor_line + 1]
          previous_content == folded_line.content
      IN  IF tr.raised THEN [ts EXCEPT !.status = "raised"]
          ELSE Bind(update_line([ts EXCEPT !.dec_state = tr.dec_state], line_no,
                                updated_line),
                    LAMBDA t1 :
                      IF previous_content # folded_line.content
                      THEN Bind(advance_updates(t1), LAMBDA t2 :
                             SetBuf(t2, [Buf(t2) EXCEPT !.updates = t2.updates]))
                      ELSE t1)))))))

\* the ANSICursor case of _handle_ansi_command from `folded_line = ...` on
MoveCursor(ts, cmd) ==
    Bind(Buf(ts).folded_lines[Buf(ts).cursor_line + 1].line_no, LAMBDA line_no :
    Bind(IF cmd.update_background
         THEN SetBuf(ts, [Buf(ts) EXCEPT !.lines[line_no + 1].style = ts.style])
         ELSE ts,
         LAMBDA t1 :
    Bind(IF IsNone(cmd.text) THEN t1 ELSE WriteText(t1, cmd, line_no), LAMBDA t2 :
    Bind(Buf(t2), LAMBDA b2 :
    Bind(b2.cursor_offset + OrElse(cmd.delta_x, 0), LAMBDA moved :
    Bind(IF IsNone(cmd.delta_x) \/ moved <= t2.width \/ t2.width <= 0 THEN 0
         ELSE (moved - 1) \div t2.width,
         LAMBDA wraps :
    Bind(b2.cursor_line + wraps, LAMBDA current_cursor_line :
    Bind(IF ~IsNone(cmd.absolute_x) THEN Val(cmd.absolute_x)
         ELSE moved - wraps * t2.width,
         LAMBDA cursor_offset :
    Bind(IF ~IsNone(cmd.absolute_y) THEN Max(0, Val(cmd.absolute_y))
         ELSE IF ~IsNone(cmd.delta_y) THEN Max(0, current_cursor_line + Val(cmd.delta_y))
         ELSE current_cursor_line,
         LAMBDA cursor_line :
      IF t2.status # "ok" THEN t2
      ELSE IF ~IsNone(cmd.delta_x) /\ moved > t2.width /\ t2.width <= 0
      THEN [t2 EXCEPT !.status = "hung"]
      ELSE Bind(SetBuf(t2, [b2 EXCEPT !.cursor_line = cursor_line,
                                      !.cursor_offset = cursor_offset]),
                LAMBDA t3 :
                  IF current_cursor_line # cursor_line
                  THEN Bind(_line_updated(t3, current_cursor_line), LAMBDA t4 :
                         _line_updated(t4, cursor_line))
                  ELSE t3))))))))))

\* the ANSICursor case of _handle_ansi_command
HandleCursor(ts, cmd) ==
    Bind(add_lines(ts, NULL_STYLE, Buf(ts).cursor_line - Len(Buf(ts).folded_lines) + 1),
         LAMBDA t1 :
      LET buffer == Buf(t1)
          start_line_no == screen_start_line_no(t1)
          scroll_cursor == buffer.cursor_line + Val(cmd.delta_y)
      IN  IF cmd.auto_scroll /\ ~IsNone(cmd.delta_y)
             /\ Val(cmd.delta_y) = 1
             /\ scroll_cursor >= start_line_no + OrElse(buffer.scroll_margin.bottom, 0)
          THEN scroll_buffer(t1, -1, 1)
          ELSE IF cmd.auto_scroll /\ ~IsNone(cmd.delta_y)
                  /\ Val(cmd.delta_y) = -1
                  /\ scroll_cursor <= start_line_no + OrElse(buffer.scroll_margin.top, 0)
          THEN scroll_buffer(t1, 1, 1)
          ELSE MoveCursor(t1, cmd))

\* the ANSIFeatures case of _handle_ansi_command
HandleFeatures(ts, features) ==
    LET set(t, f) == IF IsNone(features[f]) THEN t ELSE [t EXCEPT ![f] = Val(features[f])]
    IN  set(set(set(set(set(set(ts, "show_cursor"), "alternate_screen"),
                "bracketed_paste"), "cursor_blink"), "cursor_keys"), "auto_wrap")

\* the ANSIScrollMargin case as it would be if it left the cursor where it
\* is
HandleScrollMarginKeepCursor(ts, top, bottom) ==
    Bind(SetBuf(ts, [Buf(ts) EXCEPT !.scroll_margin = ScrollMargin(top, bottom)]),
         LAMBDA t0 : _line_updated(t0, Buf(ts).cursor_line))

\* the ANSIScrollMargin case of _handle_ansi_command
HandleScrollMargin(ts, top, bottom) ==
    Bind(SetBuf(ts, [Buf(ts) EXCEPT !.scroll_margin = ScrollMargin(top, bottom)]),
         LAMBDA t0 :
    Bind(_line_updated(t0, Buf(ts).cursor_line), LAMBDA t1 :
    Bind(SetBuf(t1, [Buf(t1) EXCEPT !.cursor_line = 0, !.cursor_offset = 0]),
         LAMBDA t2 : _line_updated(t2, 0))))

\* the ANSIMouseTracking case as it would be if a tracking mode given while
\* that mode is on switched tracking off
HandleMouseTrackingToggle(ts, cmd) ==
    LET set(m, f) == IF IsNone(cmd[f]) THEN m ELSE [m EXCEPT ![f] = Val(cmd[f])]
        tracked == set(set(set(set(ts.mouse_tracking_state, "tracking"), "format"),
                           "focus_events"), "alternate_scroll")
    IN  [ts EXCEPT !.mouse_tracking_state =
            IF ~IsNone(cmd.tracking) /\ Val(cmd.tracking) = @.tracking
            THEN [tracked EXCEPT !.tracking = "none"]
            ELSE tracked]

\* the ANSIMouseTracking case of _handle_ansi_command
HandleMouseTracking(ts, cmd) ==
    LET set(m, f) == IF IsNone(cmd[f]) THEN m ELSE [m EXCEPT ![f] = Val(cmd[f])]
    IN  [ts EXCEPT !.mouse_tracking_state =
            set(set(set(set(@, "tracking"), "format"), "focus_events"), "alternate_scroll")]

\* the rewriting of ANSINewLine as it would be if every screen took the
\* alternate screen's: ANSICursor(delta_y=+1)
NewLineCommandAlternate(alternate_screen) ==
    [ANSICursor EXCEPT !.delta_y = Some(1)]

\* the rewriting of ANSINewLine at the head of _handle_ansi_command
NewLineCommand(alternate_screen) ==
    IF alternate_screen THEN [ANSICursor EXCEPT !.delta_y = Some(1)]
    ELSE [ANSICursor EXCEPT !.delta_y = Some(1), !.absolute_x = Some(0)]

\* TerminalState._handle_ansi_command
_handle_ansi_command(ts, ansi_command) ==
    LET kind == ansi_command.kind
    IN  CASE kind = "newline" ->
               Bind(NewLineCommand(ts.alternate_screen), LAMBDA cmd : HandleCursor(ts, cmd))
          [] kind = "style" -> [ts EXCEPT !.style = ansi_command.style]
          [] kind = "cursor" -> HandleCursor(ts, ansi_command)
          [] kind = "features" -> HandleFeatures(ts, ansi_command)
          [] kind = "clear" -> clear_buffer(ts, ansi_command.clear)
          [] kind = "scroll_margin" ->
               HandleScrollMargin(ts, ansi_command.top, ansi_command.bottom)
          [] kind = "scroll" -> scroll_buffer(ts, ansi_command.direction, ansi_command.lines)
          [] kind = "charset" ->
               [ts EXCEPT !.dec_state = DECUpdate(@, ansi_command.dec, ansi_command.dec_invoke)]
          [] kind = "cwd" -> [ts EXCEPT !.current_directory = ansi_command.path]
          [] kind = "mouse" -> HandleMouseTracking(ts, ansi_command)

\* one token of the parser through on_token and _handle_ansi_command
Emit(ts, token) ==
    Bind(on_token(ts.stream.style, token),
         LAMBDA o :
           IF o.raised THEN [ts EXCEPT !.status = "raised"]
           ELSE IF o.cmds = <<>> THEN [ts EXCEPT !.stream.style = o.style]
           ELSE Bind([ts EXCEPT !.stream.style = o.style],
                     LAMBDA t1 : Bind(o.cmds[1], LAMBDA cmd : _handle_ansi_command(t1, cmd))))

RECURSIVE FeedFrom(_, _, _, _)
\* the loop of write over feed(text), from character number i; run is the
\* content read_until has gathered
FeedFrom(ts, text, i, run) ==
    IF ts.status # "ok" THEN ts
    ELSE IF i > Len(text)
    THEN IF run = <<>> THEN ts ELSE Emit(ts, <<"content", run>>)
    ELSE IF ts.stream.parser.mode = "until" /\ ~IsSeparator(text[i])
    THEN FeedFrom(ts, text, i + 1, Append(run, text[i]))
    ELSE Bind(IF run = <<>> THEN ts ELSE Emit(ts, <<"content", run>>),
              LAMBDA flushed :
                IF flushed.status # "ok" THEN flushed
                ELSE Bind(ParseStep(flushed.stream.parser, text[i]),
                          LAMBDA r :
                            Bind(IF r.tokens = <<>>
                                 THEN [flushed EXCEPT !.stream.parser = r.parser]
                                 ELSE Emit([flushed EXCEPT !.stream.parser = r.parser],
                                           r.tokens[1]),
                                 LAMBDA next : FeedFrom(next, text, i + 1, <<>>))))

\* ANSIStream.feed, its commands handled as they are yielded
feed(ts, text) == Bind(text, LAMBDA t : FeedFrom(ts, t, 1, <<>>))

\* TerminalState.write
write(ts, text) ==
    Bind(ts, LAMBDA t : IF t.status = "ok" THEN feed(t, text) ELSE t)

----------------------------------------------------------------------------
(* The engine as a state machine: writes and resizes of one TerminalState *)

CSI(body) == <<ESC, "[">> \o body
OSC(body) == <<ESC, "]">> \o body \o <<BEL>>

Hello == <<"H", "e", "l", "l", "o">>
World == <<"W", "o", "r", "l", "d">>

\* the texts Spec writes
Texts ==
    { <<"x">>, Hello, <<CR, LF>>, <<BS>>,
      CSI(<<"A">>), CSI(<<"2", "C">>), CSI(<<"3", ";", "2", "H">>),
      CSI(<<"1", ";", "3", "1", "m">>), CSI(<<"?", "7", "l">>),
      CSI(<<"?", "1", "0", "4", "9", "h">>), CSI(<<"2", "J">>),
      CSI(<<"1", "S">>), CSI(<<"S">>), CSI(<<"K">>) }

\* the sizes Spec resizes to
Widths == {2, 3}
Heights == {1, 2}

NoOp == [op |-> "init", text |-> <<>>, width |-> 0, height |-> 0]

Fresh == NewTerminalState(3, 2)

Init ==
    /\ term = Fresh
    /\ ref = Fresh
    /\ pre = Fresh
    /\ last = NoOp
    /\ steps = 0
    /\ aux = <<>>

\* TerminalState.write(text)
Write ==
    \E text \in Texts :
        /\ steps < MaxSteps
        /\ term.status = "ok"
        /\ term' = write(term, text)
        /\ pre' = term
        /\ last' = [NoOp EXCEPT !.op = "write", !.text = text]
        /\ steps' = steps + 1
        /\ UNCHANGED <<ref, aux>>

\* TerminalState.update_size(width, height)
UpdateSize ==
    \E width \in Widths, height \in Heights :
        /\ steps < MaxSteps
        /\ term.status = "ok"
        /\ term' = update_size(term, width, height)
        /\ pre' = term
        /\ last' = [NoOp EXCEPT !.op = "update_size", !.width = width, !.height = height]
        /\ steps' = steps + 1
        /\ UNCHANGED <<ref, aux>>

Next == Write \/ UpdateSize

Spec == Init /\ [][Next]_vars

----------------------------------------------------------------------------
(* C2: the fold index of a buffer *)

RECURSIVE FoldsFrom(_, _)
\* the folds of lines[k..] one after the other
FoldsFrom(lines, k) ==
    IF k > Len(lines) THEN <<>> ELSE lines[k].folds \o FoldsFrom(lines, k + 1)

RECURSIVE FoldCountBefore(_, _)
\* the number of folds of the first i lines
FoldCountBefore(lines, i) ==
    IF i = 0 THEN 0 ELSE FoldCountBefore(lines, i - 1) + Len(lines[i].folds)

FoldIndexOk(buffer) ==
    /\ buffer.folded_lines = FoldsFrom(buffer.lines, 1)
    /\ Len(buffer.line_to_fold) = Len(buffer.lines)
    /\ \A i \in 1..Len(buffer.lines) :
           buffer.line_to_fold[i] = FoldCountBefore(buffer.lines, i - 1)

----------------------------------------------------------------------------
(* C5, C6: resizing *)

\* a fold without its update stamp
FoldPlace(fold) ==
    [line_no |-> fold.line_no, line_offset |-> fold.line_offset,
     offset |-> fold.offset, content |-> fold.content]

FoldPlaces(folded_lines) ==
    [k \in 1..Len(folded_lines) |-> FoldPlace(folded_lines[k])]

\* term after one more reflow at the width and height it has
ReflowedAgain == update_size(term, term.width, term.height)

\* C5 as amended: a second reflow at an unchanged width and height leaves
\* every fold of the active buffer with the same line_no, line_offset, offset
\* and content, in the same order; only the update stamps of the folds are
\* renewed.
C5_ReflowKeepsFolds ==
    last.op = "update_size" /\ term.status = "ok" =>
        FoldPlaces(Buf(ReflowedAgain).folded_lines) = FoldPlaces(Buf(term).folded_lines)

\* C5 as stated: a second reflow at an unchanged width and height leaves
\* folded_lines identical field for field.
C5_ReflowIdentical ==
    last.op = "update_size" /\ term.status = "ok" =>
        Buf(ReflowedAgain).folded_lines = Buf(term).folded_lines

\* a resize has refolded a line into three folds
C5_Witness ==
    /\ last.op = "update_size"
    /\ term.status = "ok"
    /\ term.width # pre.width
    /\ \E i \in 1..Len(Buf(term).lines) : Len(Buf(term).lines[i].folds) = 3

\* C6 as stated: update_size leaves Buffer.cursor, the cursor as (line
\* number, offset in the unfolded line), as it was before the call.
C6_CursorKept ==
    last.op = "update_size" /\ term.status = "ok" =>
        BufferCursor(Buf(term)) = BufferCursor(Buf(pre))

----------------------------------------------------------------------------
(* C3: no input is fatal *)

\* C3 as stated: write(text) returns without raising, whatever the text.
C3_WriteNeverRaises == term.status # "raised"

----------------------------------------------------------------------------
(* SpecFold: _fold_line as a function of the line, the width and auto_wrap *)

\* longest line and largest width SpecFold folds
MaxLineLength == 7
MaxFoldWidth == 4

Alphabet == <<"a", "b", "c", "d", "e", "f", "g", "h", "i", "j">>

\* a line of `length` cells
LineOfLength(length) ==
    Styled([i \in 1..length |-> Alphabet[((i - 1) % Len(Alphabet)) + 1]], NULL_STYLE)

InitFold ==
    /\ term \in {[Fresh EXCEPT !.auto_wrap = auto_wrap] : auto_wrap \in BOOLEAN}
    /\ ref = Fresh
    /\ pre = term
    /\ last = NoOp
    /\ steps = 0
    /\ aux = <<>>

\* folds = self._fold_line(line_no, line, width)
Fold ==
    \E line_no \in 0..1, length \in 0..MaxLineLength, width \in 0..MaxFoldWidth :
        /\ aux' = _fold_line(term, line_no, LineOfLength(length), width)
        /\ last' = [op |-> "fold", text |-> LineOfLength(length), width |-> width,
                    height |-> line_no]
        /\ UNCHANGED <<term, ref, pre, steps>>

NextFold == Fold

SpecFold == InitFold /\ [][NextFold]_vars

\* the least k with k * w >= n
CeilDiv(n, w) == CHOOSE k \in 0..n : k * w >= n /\ \A j \in 0..n : j * w >= n => k <= j

\* C4: for a line of length L and a width w > 0, _fold_line returns
\* max(1, ceil(L / w)) folds when auto_wrap is on and one fold when it is off.
C4_FoldCount ==
    last.op = "fold" /\ last.width > 0 =>
        Len(aux) = IF term.auto_wrap
                   THEN Max(1, CeilDiv(Len(last.text), last.width))
                   ELSE 1

\* a line that is a whole number of widths long was folded in two, and the
\* same line with auto_wrap off would not have been
C4_Witness ==
    /\ last.op = "fold"
    /\ term.auto_wrap
    /\ last.width = 3
    /\ Len(last.text) = 6
    /\ Len(aux) = 2
    /\ Len(_fold_line([term EXCEPT !.auto_wrap = FALSE], 0, last.text, 3)) = 1

----------------------------------------------------------------------------
(* SpecPen: SGR and OSC 8 sequences and text written to a fresh 80x24      *)
(* engine; aux is the list of the texts written so far                     *)

\* texts written in one behaviour of SpecPen
MaxPenSteps == 3

X == <<"X">>
SGR_BOLD_RED == CSI(<<"1", ";", "3", "1", "m">>)
SGR_GREEN == CSI(<<"3", "2", "m">>)
SGR_RESET_0 == CSI(<<"0", "m">>)
SGR_RESET == CSI(<<"m">>)
\* OSC 8 ; ; U BEL and OSC 8 ; ; BEL
OSC_8_LINK == OSC(<<"8", ";", ";", "U">>)
OSC_8_END == OSC(<<"8", ";", ";">>)
\* an empty OSC, then the text _8;;V and a BEL
OSC_THEN_TEXT == OSC(<<>>) \o <<"_", "8", ";", ";", "V", BEL>>

SgrTexts == {SGR_BOLD_RED, SGR_GREEN, SGR_RESET_0, SGR_RESET}
PenTexts == SgrTexts \cup {X, OSC_8_LINK, OSC_8_END, OSC_THEN_TEXT}

InitPen ==
    /\ term = NewTerminalState(80, 24)
    /\ ref = Fresh
    /\ pre = term
    /\ last = NoOp
    /\ steps = 0
    /\ aux = <<>>

\* TerminalState.write(text)
WritePen ==
    \E text \in PenTexts :
        /\ steps < MaxPenSteps
        /\ term.status = "ok"
        /\ term' = write(term, text)
        /\ pre' = term
        /\ last' = [NoOp EXCEPT !.op = "write", !.text = text]
        /\ steps' = steps + 1
        /\ aux' = Append(aux, text)
        /\ UNCHANGED ref

NextPen == WritePen

SpecPen == InitPen /\ [][NextPen]_vars

\* the last cell of the first line of the scrollback buffer, None without one
LastCell(ts) ==
    LET lines == ts.scrollback_buffer.lines
    IN  IF lines = <<>> \/ lines[1].content = <<>> THEN None
        ELSE Some(lines[1].content[Len(lines[1].content)])

\* the number of cells of the first line of the scrollback buffer
CellCount(ts) ==
    IF ts.scrollback_buffer.lines = <<>> THEN 0
    ELSE Len(ts.scrollback_buffer.lines[1].content)

\* only SGR sequences and text were written
SgrAndTextOnly == \A i \in 1..Len(aux) : aux[i] \in SgrTexts \cup {X}

BOLD_RED == [NULL_STYLE EXCEPT !.bold = Some(TRUE), !.foreground = Some(<<1>>)]

\* C7: when only SGR sequences and text are written, an X is stored as one
\* more cell that carries the pen of the moment; CSI 32 m changes the
\* foreground of the pen and keeps the rest of it; and on a fresh engine
\* CSI 1;31 m then X leaves the line as the single cell X, bold and red.
C7_TextTakesPen ==
    SgrAndTextOnly /\ term.status = "ok" =>
        /\ last.text = X =>
              /\ CellCount(term) = CellCount(pre) + 1
              /\ LastCell(term) = Some([ch |-> "X", style |-> pre.style])
        /\ last.text = SGR_GREEN =>
              term.style = [pre.style EXCEPT !.foreground = Some(<<2>>)]
        /\ aux = <<SGR_BOLD_RED, X>> =>
              term.scrollback_buffer.lines[1].content
                  = <<[ch |-> "X", style |-> BOLD_RED]>>

\* CSI 1;31 m, CSI 32 m, X: the X is bold and green
C7_Witness ==
    /\ aux = <<SGR_BOLD_RED, SGR_GREEN, X>>
    /\ LastCell(term) = Some([ch |-> "X",
                              style |-> [BOLD_RED EXCEPT !.foreground = Some(<<2>>)]])

\* C8 as stated: once CSI 0 m or CSI m has been written, the pen of the
\* decoder and the pen of TerminalState are both the null style.
C8_ResetClearsPen ==
    last.text \in {SGR_RESET_0, SGR_RESET} /\ term.status = "ok" =>
        /\ term.stream.style = NULL_STYLE
        /\ term.style = NULL_STYLE

RECURSIVE ExpectedLink(_, _)
\* the link the texts history[1..n] leave in force: that of the last OSC 8
\* with a URI, None after an empty OSC 8 or a reset SGR
ExpectedLink(history, n) ==
    IF n = 0 THEN None
    ELSE IF history[n] = OSC_8_LINK THEN Some(<<"U">>)
    ELSE IF history[n] \in {OSC_8_END, SGR_RESET_0, SGR_RESET} THEN None
    ELSE ExpectedLink(history, n - 1)

\* C9 as stated: an X is stored as one more cell, and the cell carries the
\* link of the last OSC 8 written before it unless an empty OSC 8 or a reset
\* SGR came in between, in which case it carries no link.
C9_LinkApplies ==
    last.text = X /\ term.status = "ok" =>
        /\ CellCount(term) = CellCount(pre) + 1
        /\ ~IsNone(LastCell(term))
        /\ Val(LastCell(term)).ch = "X"
        /\ Val(LastCell(term)).style.link = ExpectedLink(aux, Len(aux) - 1)

----------------------------------------------------------------------------
(* SpecLines: lines of text separated by CR LF, written in one write to a  *)
(* fresh engine; aux is the list of the segments written                   *)

\* segments in one text
MaxSegments == 3

\* non-empty segments, shorter than, as long as and longer than the width 3
Segments ==
    { <<"a">>, <<"a", "b">>, <<"a", "b", "c">>, <<"a", "b", "c", "d">>,
      Hello, World, <<"a", "b", "c", "d", "e", "f">> }

SegmentLists == UNION {[1..n -> Segments] : n \in 1..MaxSegments}

LineWidths == {3, 80}

RECURSIVE JoinLines(_, _)
\* segments[k..] with CR LF between them
JoinLines(segments, k) ==
    IF k = Len(segments) THEN segments[k]
    ELSE segments[k] \o <<CR, LF>> \o JoinLines(segments, k + 1)

InitLines ==
    /\ term \in {NewTerminalState(width, 24) : width \in LineWidths}
    /\ ref = Fresh
    /\ pre = term
    /\ last = NoOp
    /\ steps = 0
    /\ aux = <<>>

\* TerminalState.write(text) of a fresh engine
WriteLines ==
    \E segments \in SegmentLists :
        /\ steps = 0
        /\ term' = write(term, JoinLines(segments, 1))
        /\ pre' = term
        /\ last' = [NoOp EXCEPT !.op = "write", !.text = JoinLines(segments, 1)]
        /\ steps' = 1
        /\ aux' = segments
        /\ UNCHANGED ref

NextLines == WriteLines

SpecLines == InitLines /\ [][NextLines]_vars

\* the text of the lines of a buffer
PlainLines(buffer) == [i \in 1..Len(buffer.lines) |-> Plain(buffer.lines[i].content)]

\* C10: after a fresh engine in scrollback mode was written non-empty
\* segments of text with CR LF between them, the scrollback buffer holds one
\* line per segment with exactly the text of the segment, and Buffer.cursor
\* is (index of the last line, length of the last segment); for
\* "Hello\r\nWorld" that is the lines Hello and World and the cursor (1, 5).
C10_LinePerSegment ==
    last.op = "write" =>
        /\ term.status = "ok"
        /\ ~term.alternate_screen
        /\ PlainLines(term.scrollback_buffer) = aux
        /\ BufferCursor(term.scrollback_buffer) = <<Len(aux) - 1, Len(aux[Len(aux)])>>
        /\ aux = <<Hello, World>> =>
              /\ PlainLines(term.scrollback_buffer) = <<Hello, World>>
              /\ BufferCursor(term.scrollback_buffer) = <<1, 5>>

\* Hello CR LF World was written to an engine three cells wide: two lines of
\* two folds each, the cursor on the fourth fold
C10_Witness ==
    /\ aux = <<Hello, World>>
    /\ term.width = 3
    /\ Len(term.scrollback_buffer.folded_lines) = 4
    /\ term.scrollback_buffer.cursor_line = 3
    /\ BufferCursor(term.scrollback_buffer) = <<1, 5>>

----------------------------------------------------------------------------
(* SpecChunk: the same texts written to term in two chunks and to ref in   *)
(* one piece                                                               *)

\* texts written in one behaviour of SpecChunk
MaxChunkSteps == 2

ChunkTexts ==
    { <<"a", "b">>, <<"a", "b", "c", "d">>, <<BS>>, <<CR, LF>>,
      SGR_BOLD_RED, CSI(<<"?", "7", "l">>), CSI(<<"2", "C">>),
      <<ESC, "]", "8", ";", ";", "U", ESC, "\\">>, <<ESC, "M">> }

InitChunk ==
    /\ term = Fresh
    /\ ref = Fresh
    /\ pre = Fresh
    /\ last = NoOp
    /\ steps = 0
    /\ aux = <<>>

\* write(text[:cut]); write(text[cut:]) on term, write(text) on ref; aux is
\* the cut
WriteChunks ==
    \E text \in ChunkTexts :
        \E cut \in 0..Len(text) :
            /\ steps < MaxChunkSteps
            /\ term.status = "ok"
            /\ ref.status = "ok"
            /\ term' = write(write(term, PyTo(text, cut)), PyFrom(text, cut))
            /\ ref' = write(ref, text)
            /\ pre' = term
            /\ last' = [NoOp EXCEPT !.op = "write", !.text = text]
            /\ steps' = steps + 1
            /\ aux' = cut

NextChunk == WriteChunks

SpecChunk == InitChunk /\ [][NextChunk]_vars

\* what C1 compares of a buffer
BufferSeen(buffer) ==
    [lines |-> [i \in 1..Len(buffer.lines) |-> buffer.lines[i].content],
     cursor_line |-> buffer.cursor_line,
     cursor_offset |-> buffer.cursor_offset,
     scroll_margin |-> buffer.scroll_margin]

\* what C1 compares of an engine
Seen(ts) ==
    [scrollback_buffer |-> BufferSeen(ts.scrollback_buffer),
     alternate_buffer |-> BufferSeen(ts.alternate_buffer),
     style |-> ts.style,
     features |-> <<ts.show_cursor, ts.alternate_screen, ts.bracketed_paste,
                    ts.cursor_blink, ts.cursor_keys, ts.replace_mode, ts.auto_wrap>>,
     mouse_tracking_state |-> ts.mouse_tracking_state,
     status |-> ts.status]

\* C1 as stated: texts written in chunks leave the same line contents,
\* cursor position, pen, feature flags, mouse-tracking state and scroll
\* margins in both buffers as the same texts written whole.
C1_ChunksAsWhole == Seen(term) = Seen(ref)

----------------------------------------------------------------------------
(* SpecScreen: writes of single sequences and resizes of a 4 x 4 engine    *)

\* writes and resizes in one behaviour of SpecScreen
MaxScreenSteps == 3

\* four lines of text, the cursor left on the last of them
Page == <<"a", "a", CR, LF, "b", "b", CR, LF, "c", "c", CR, LF, "d", "d">>

ENTER_ALTERNATE == CSI(<<"?", "1", "0", "4", "9", "h">>)
LEAVE_ALTERNATE == CSI(<<"?", "1", "0", "4", "9", "l">>)
CLEAR_SCREEN == CSI(<<"2", "J">>)
CURSOR_UP_100 == CSI(<<"1", "0", "0", "A">>)
REVERSE_INDEX == <<ESC, "M">>

CursorTexts ==
    { CSI(<<"A">>), CURSOR_UP_100, CSI(<<"2", "F">>), REVERSE_INDEX,
      CSI(<<"0", ";", "0", "H">>), CSI(<<"0", "d">>), CSI(<<"6", ";", "2", "H">>),
      CSI(<<"B">>) }

MarginTexts == { CSI(<<"2", ";", "3", "r">>), CSI(<<"1", ";", "4", "r">>), CSI(<<"r">>) }

ScrollTexts ==
    { CSI(<<"1", "S">>), CSI(<<"2", "S">>), CSI(<<"1", "T">>), CSI(<<"2", "T">>) }

ScreenTexts ==
    { <<"x", "y">>, Page, <<LF>>, ENTER_ALTERNATE, LEAVE_ALTERNATE, CLEAR_SCREEN,
      SGR_BOLD_RED } \cup CursorTexts \cup MarginTexts \cup ScrollTexts

\* the sizes SpecScreen resizes to
ScreenSizes == { <<2, 2>>, <<4, 3>> }

FreshScreen == NewTerminalState(4, 4)

InitScreen ==
    /\ term = FreshScreen
    /\ ref = FreshScreen
    /\ pre = FreshScreen
    /\ last = NoOp
    /\ steps = 0
    /\ aux = <<>>

\* TerminalState.write(text)
WriteScreen ==
    \E text \in ScreenTexts :
        /\ steps < MaxScreenSteps
        /\ term.status = "ok"
        /\ term' = write(term, text)
        /\ pre' = term
        /\ last' = [NoOp EXCEPT !.op = "write", !.text = text]
        /\ steps' = steps + 1
        /\ UNCHANGED <<ref, aux>>

\* TerminalState.update_size(width, height)
ResizeScreen ==
    \E size \in ScreenSizes :
        /\ steps < MaxScreenSteps
        /\ term.status = "ok"
        /\ term' = update_size(term, size[1], size[2])
        /\ pre' = term
        /\ last' = [NoOp EXCEPT !.op = "update_size", !.width = size[1],
                                !.height = size[2]]
        /\ steps' = steps + 1
        /\ UNCHANGED <<ref, aux>>

NextScreen == WriteScreen \/ ResizeScreen

SpecScreen == InitScreen /\ [][NextScreen]_vars

\* the last step wrote text
Wrote(text) == last.op = "write" /\ last.text = text /\ term.status = "ok"

----------------------------------------------------------------------------
(* C11: a newline *)

\* C11: a newline written while alternate_screen is false moves the cursor
\* of the active buffer down one row and puts it in column 0; written while
\* alternate_screen is true it moves the cursor down one row and leaves the
\* column as it was.
C11_NewLine ==
    Wrote(<<LF>>) =>
        /\ Buf(term).cursor_line = Buf(pre).cursor_line + 1
        /\ Buf(term).cursor_offset =
              IF pre.alternate_screen THEN Buf(pre).cursor_offset ELSE 0

\* a newline written in the alternate screen with the cursor in column 2
C11_Witness ==
    /\ Wrote(<<LF>>)
    /\ pre.alternate_screen
    /\ Buf(pre).cursor_offset = 2
    /\ Buf(term).cursor_offset = 2
    /\ Buf(term).cursor_line = 1

----------------------------------------------------------------------------
(* C12: Clear(screen) *)

\* every line of the buffer is empty, in content and in folds
AllBlank(buffer) ==
    /\ \A i \in 1..Len(buffer.lines) : buffer.lines[i].content = EMPTY_LINE
    /\ \A k \in 1..Len(buffer.folded_lines) : buffer.folded_lines[k].content = EMPTY_LINE

\* C12: after CSI 2 J the active buffer has exactly height lines, each of
\* them empty and filled with the current pen, nothing of the previous
\* content is left, and width and height are as they were.
C12_ClearScreen ==
    Wrote(CLEAR_SCREEN) =>
        /\ Len(Buf(term).lines) = term.height
        /\ AllBlank(Buf(term))
        /\ \A i \in 1..Len(Buf(term).lines) : Buf(term).lines[i].style = pre.style
        /\ term.style = pre.style
        /\ term.width = pre.width
        /\ term.height = pre.height

\* four lines of text cleared with a bold red pen
C12_Witness ==
    /\ Wrote(CLEAR_SCREEN)
    /\ Len(Buf(pre).lines) = 4
    /\ \A i \in 1..4 : Len(Buf(pre).lines[i].content) = 2
    /\ pre.style = BOLD_RED
    /\ Len(Buf(term).lines) = 4
    /\ Buf(term).lines[1].style = BOLD_RED

----------------------------------------------------------------------------
(* C13: Scroll *)

\* the command _parse_csi decodes from the sequence text
CommandOf(text) == Val(_parse_csi(SubSeq(text, 3, Len(text) - 1), text[Len(text)]).cmd)

\* the content of line number i, a line the buffer does not hold being blank
ContentAt(buffer, i) ==
    IF i < Len(buffer.lines) THEN buffer.lines[i + 1].content ELSE EMPTY_LINE

\* the line numbers of both buffers before and after the last step
LineNumbers == 0..(Max(Len(Buf(pre).lines), Len(Buf(term).lines)) - 1)

----------------------------------------------------------------------------
(* C14: the buffer that is not active *)

\* the lines, folds, cursor and scroll margin of a buffer
BufferKept(buffer) ==
    [lines |-> buffer.lines, line_to_fold |-> buffer.line_to_fold,
     folded_lines |-> buffer.folded_lines, cursor_line |-> buffer.cursor_line,
     cursor_offset |-> buffer.cursor_offset, scroll_margin |-> buffer.scroll_margin]

\* C14: a write or resize made while alternate_screen is true leaves the
\* lines, folds, cursor and scroll margin of the scrollback buffer as they
\* were, one made while it is false leaves those of the alternate buffer as
\* they were, and a write that switches alternate_screen changes neither
\* buffer.
C14_InactiveBufferKept ==
    /\ (pre.alternate_screen /\ term.alternate_screen) =>
          BufferKept(term.scrollback_buffer) = BufferKept(pre.scrollback_buffer)
    /\ (~pre.alternate_screen /\ ~term.alternate_screen) =>
          BufferKept(term.alternate_buffer) = BufferKept(pre.alternate_buffer)
    /\ (pre.alternate_screen # term.alternate_screen) =>
          /\ BufferKept(term.scrollback_buffer) = BufferKept(pre.scrollback_buffer)
          /\ BufferKept(term.alternate_buffer) = BufferKept(pre.alternate_buffer)

\* text written to the alternate buffer while the scrollback buffer holds
\* four lines
C14_Witness ==
    /\ Wrote(<<"x", "y">>)
    /\ pre.alternate_screen
    /\ Len(term.scrollback_buffer.lines) = 4
    /\ Len(term.alternate_buffer.lines) = 1
    /\ Plain(term.alternate_buffer.lines[1].content) = <<"x", "y">>

\* alternate_screen switched off with lines in both buffers
C14_SwitchWitness ==
    /\ Wrote(LEAVE_ALTERNATE)
    /\ pre.alternate_screen
    /\ ~term.alternate_screen
    /\ term.alternate_buffer.lines # <<>>

----------------------------------------------------------------------------
(* C15: the cursor row *)

\* C15: the cursor row of neither buffer is ever negative: CSI n A and
\* CSI n F move the cursor of the active buffer up n rows and no further
\* than row 0, an absolute row above the first line leaves it on row 0, and
\* CSI 100 A leaves it on row 0.
C15_CursorRow ==
    /\ term.scrollback_buffer.cursor_line >= 0
    /\ term.alternate_buffer.cursor_line >= 0
    /\ Wrote(CURSOR_UP_100) => Buf(term).cursor_line = 0
    /\ Wrote(CSI(<<"A">>)) => Buf(term).cursor_line = Max(0, Buf(pre).cursor_line - 1)
    /\ Wrote(CSI(<<"2", "F">>)) => Buf(term).cursor_line = Max(0, Buf(pre).cursor_line - 2)
    /\ Wrote(CSI(<<"0", ";", "0", "H">>)) => Buf(term).cursor_line = 0
    /\ Wrote(CSI(<<"0", "d">>)) => Buf(term).cursor_line = 0

\* CSI 100 A written with the cursor on row 5
C15_Witness ==
    /\ Wrote(CURSOR_UP_100)
    /\ Buf(pre).cursor_line = 5
    /\ Buf(term).cursor_line = 0

----------------------------------------------------------------------------
(* C16: ScrollMargin *)

\* the buffer that is not active
Inactive(ts) == IF ts.alternate_screen THEN ts.scrollback_buffer ELSE ts.alternate_buffer

\* C16: ScrollMargin{top, bottom} sets the scroll margin of the active
\* buffer to (top, bottom) and puts its cursor on row 0, column 0, wherever
\* the cursor was; the margin and cursor of the other buffer stay as they
\* were.
C16_ScrollMargin ==
    \A text \in MarginTexts :
        Wrote(text) =>
            /\ Buf(term).scroll_margin
                  = ScrollMargin(CommandOf(text).top, CommandOf(text).bottom)
            /\ Buf(term).cursor_line = 0
            /\ Buf(term).cursor_offset = 0
            /\ Inactive(term).scroll_margin = Inactive(pre).scroll_margin
            /\ Inactive(term).cursor_line = Inactive(pre).cursor_line
            /\ Inactive(term).cursor_offset = Inactive(pre).cursor_offset

\* CSI 2;3 r written with the cursor on row 3, column 2
C16_Witness ==
    /\ Wrote(CSI(<<"2", ";", "3", "r">>))
    /\ Buf(pre).cursor_line = 3
    /\ Buf(pre).cursor_offset = 2
    /\ Buf(pre).scroll_margin = ScrollMargin(Some(0), Some(0))
    /\ Buf(term).scroll_margin = ScrollMargin(Some(1), Some(2))
    /\ Buf(term).cursor_line = 0
    /\ Buf(term).cursor_offset = 0

----------------------------------------------------------------------------
(* SpecDec: one DECState, updated and asked to translate *)

\* calls made in one behaviour of SpecDec
MaxDecSteps == 3

\* ANSICharacterSet commands: designations of "0" and "B" to the four slots
\* and the invocations of DEC_INVOKE_MAP
DecCommands ==
    { ANSICharacterSet(Some([slot |-> slot, character_set |-> character_set]), None) :
        slot \in 0..3, character_set \in {"0", "B"} }
    \cup { ANSICharacterSet(None, DEC_INVOKE_MAP(c)) : c \in {"n", "o", "~", "}", "|", "N", "O"} }

\* texts handed to translate
DecTexts == { <<"q">>, <<"q", "x">>, <<"a", "q">> }

InitDec ==
    /\ term = NewDECState
    /\ ref = NewDECState
    /\ pre = NewDECState
    /\ last = NoOp
    /\ steps = 0
    /\ aux = <<>>

\* DECState.update(dec, dec_invoke)
DecUpdate ==
    \E cmd \in DecCommands :
        /\ steps < MaxDecSteps
        /\ term' = DECUpdate(term, cmd.dec, cmd.dec_invoke)
        /\ pre' = term
        /\ last' = [NoOp EXCEPT !.op = "update"]
        /\ steps' = steps + 1
        /\ aux' = <<>>
        /\ UNCHANGED ref

\* DECState.translate(text); aux is the text it returns
DecTranslate ==
    \E text \in DecTexts :
        /\ steps < MaxDecSteps
        /\ term' = DECTranslate(term, text).dec_state
        /\ pre' = term
        /\ last' = [NoOp EXCEPT !.op = "translate", !.text = text]
        /\ steps' = steps + 1
        /\ aux' = DECTranslate(term, text).text
        /\ UNCHANGED ref

NextDec == DecUpdate \/ DecTranslate

SpecDec == InitDec /\ [][NextDec]_vars

\* text through the table of the character set in slot number slot, as it
\* is when that set has no table
ThroughSlot(dec_state, slot, text) ==
    IF IsNone(CHARSET_MAP(dec_state.slots[slot + 1])) THEN text
    ELSE TranslateText(Val(CHARSET_MAP(dec_state.slots[slot + 1])), text)

\* C17 as stated: with a single shift pending, translate applies the shifted
\* slot to the first character of the text and to no other, the rest going
\* through the GL slot, and no shift is pending after the call, whether or
\* not the shifted slot has a translation table.
C17_SingleShift ==
    (last.op = "translate" /\ ~IsNone(pre.shift)) =>
        /\ aux = ThroughSlot(pre, Val(pre.shift), <<last.text[1]>>)
                   \o ThroughSlot(pre, pre.gl_slot, Tail(last.text))
        /\ IsNone(term.shift)

\* C26: translate returns a text of the length of its argument: with a single
\* shift pending the first character is text[0] through the shifted slot and
\* the rest is text[1:] through the GL slot, with none pending it is the text
\* through the GL slot; a slot without a table maps each character to itself.
C26_Translate ==
    (last.op = "translate") =>
        /\ Len(aux) = Len(last.text)
        /\ aux = IF IsNone(pre.shift)
                 THEN ThroughSlot(pre, pre.gl_slot, last.text)
                 ELSE ThroughSlot(pre, Val(pre.shift), <<last.text[1]>>)
                        \o ThroughSlot(pre, pre.gl_slot, Tail(last.text))

----------------------------------------------------------------------------
(* SpecModes: Features, MouseTracking, WorkingDirectory and CharacterSet   *)
(* commands applied to an engine, and the sequences of the feature flags   *)
(* written to it                                                           *)

\* commands and writes in one behaviour of SpecModes
MaxModeSteps == 2

FeatureFields ==
    {"show_cursor", "alternate_screen", "bracketed_paste", "cursor_blink",
     "cursor_keys", "replace_mode", "auto_wrap"}

\* ANSIFeatures commands with one field, and one with two
FeatureCommands ==
    { [ANSIFeatures EXCEPT ![f] = Some(v)] : f \in FeatureFields, v \in BOOLEAN }
    \cup { [ANSIFeatures EXCEPT !.show_cursor = Some(FALSE), !.auto_wrap = Some(FALSE)] }

MouseCommands ==
    { ANSIMouseTracking(Some("button"), None, None, None),
      ANSIMouseTracking(Some("all"), None, None, None),
      ANSIMouseTracking(None, Some("sgr"), None, None),
      ANSIMouseTracking(None, None, Some(TRUE), Some(TRUE)) }

DirectoryCommands == { ANSIWorkingDirectory(<<"a">>), ANSIWorkingDirectory(<<"b">>) }

CharacterSetCommands ==
    { ANSICharacterSet(Some([slot |-> 0, character_set |-> "0"]), None),
      ANSICharacterSet(Some([slot |-> 1, character_set |-> "0"]), None),
      ANSICharacterSet(Some([slot |-> 0, character_set |-> "A"]), None),
      ANSICharacterSet(None, DEC_INVOKE_MAP("n")),
      ANSICharacterSet(None, DEC_INVOKE_MAP("o")),
      ANSICharacterSet(None, DEC_INVOKE_MAP("~")),
      ANSICharacterSet(None, DEC_INVOKE_MAP("N")) }

ModeCommands ==
    FeatureCommands \cup MouseCommands \cup DirectoryCommands \cup CharacterSetCommands

DISABLE_REPLACE_MODE == CSI(<<"4", "l">>)
ENABLE_REPLACE_MODE == CSI(<<"4", "h">>)

ModeTexts ==
    { DISABLE_REPLACE_MODE, ENABLE_REPLACE_MODE, CSI(<<"?", "2", "5", "l">>),
      CSI(<<"?", "7", "l">>), CSI(<<"?", "1", "h">>),
      CSI(<<"?", "1", "0", "0", "0", "h">>) }

InitModes ==
    /\ term = Fresh
    /\ ref = <<>>
    /\ pre = Fresh
    /\ last = NoOp
    /\ steps = 0
    /\ aux = <<>>

\* TerminalState._handle_ansi_command(command); aux is the command and ref
\* the command of the step before
ApplyMode ==
    \E command \in ModeCommands :
        /\ steps < MaxModeSteps
        /\ term' = _handle_ansi_command(term, command)
        /\ pre' = term
        /\ last' = [NoOp EXCEPT !.op = "apply"]
        /\ steps' = steps + 1
        /\ aux' = command
        /\ ref' = aux

\* TerminalState.write(text)
WriteMode ==
    \E text \in ModeTexts :
        /\ steps < MaxModeSteps
        /\ term' = write(term, text)
        /\ pre' = term
        /\ last' = [NoOp EXCEPT !.op = "write", !.text = text]
        /\ steps' = steps + 1
        /\ aux' = <<>>
        /\ ref' = aux

NextModes == ApplyMode \/ WriteMode

SpecModes == InitModes /\ [][NextModes]_vars

----------------------------------------------------------------------------
(* C18: Features *)

\* C18 as stated: a Features command sets each of the seven flags that is
\* present in it to the value given and leaves the absent ones as they
\* were; CSI 4 l makes replace_mode false and CSI 4 h makes it true.
C18_Features ==
    /\ (last.op = "apply" /\ aux.kind = "features") =>
          \A f \in FeatureFields :
              term[f] = IF IsNone(aux[f]) THEN pre[f] ELSE Val(aux[f])
    /\ Wrote(DISABLE_REPLACE_MODE) => ~term.replace_mode
    /\ Wrote(ENABLE_REPLACE_MODE) => term.replace_mode

----------------------------------------------------------------------------
(* C19: commands that set fields *)

\* the fields a command of ModeCommands sets
FieldsSet(command) ==
    CASE command.kind = "features" ->
           {f \in FeatureFields : ~IsNone(command[f])}
      [] command.kind = "mouse" ->
           {f \in {"tracking", "format", "focus_events", "alternate_scroll"} :
               ~IsNone(command[f])}
      [] command.kind = "cwd" -> {"current_directory"}
      [] command.kind = "charset" ->
           IF ~IsNone(command.dec)
           THEN {<<"slots[0]", "slots[1]", "slots[2]", "slots[3]">>[Val(command.dec).slot + 1]}
           ELSE IF ~IsNone(Val(command.dec_invoke).shift) THEN {"shift"}
           ELSE IF ~IsNone(Val(command.dec_invoke).gl) THEN {"gl_slot"}
           ELSE {"gr_slot"}

\* C19: a Features, MouseTracking, WorkingDirectory or CharacterSet command
\* applied twice in a row leaves the engine as one application does, and
\* two such commands that set disjoint fields leave the same engine in either
\* order.
C19_IdempotentAndCommuting ==
    /\ \A c \in ModeCommands :
          _handle_ansi_command(_handle_ansi_command(term, c), c)
             = _handle_ansi_command(term, c)
    /\ \A c \in ModeCommands, d \in ModeCommands :
          FieldsSet(c) \cap FieldsSet(d) = {} =>
              _handle_ansi_command(_handle_ansi_command(term, c), d)
                 = _handle_ansi_command(_handle_ansi_command(term, d), c)

\* the same mouse-tracking command applied twice in a row: the first
\* application changed the engine, the second left it as it was
C19_Witness ==
    /\ steps = 2
    /\ last.op = "apply"
    /\ aux = ANSIMouseTracking(Some("button"), None, None, None)
    /\ ref = aux
    /\ pre.mouse_tracking_state.tracking = "button"
    /\ term = pre
    /\ term # Fresh

----------------------------------------------------------------------------
(* SpecKeys: key events turned into input for the child process *)

\* writes and key events in one behaviour of SpecKeys
MaxKeySteps == 3

\* TERMINAL_KEY_MAP.get(key), for the keys of KeyEvents
TERMINAL_KEY_MAP(key) ==
    CASE key = "f1" -> Some(<<ESC, "O", "P">>)
      [] key = "up" -> Some(<<ESC, "[", "A">>)
      [] key = "down" -> Some(<<ESC, "[", "B">>)
      [] key = "right" -> Some(<<ESC, "[", "C">>)
      [] key = "left" -> Some(<<ESC, "[", "D">>)
      [] key = "shift+up" -> Some(<<ESC, "[", "1", ";", "2", "A">>)
      [] key = "home" -> Some(<<ESC, "[", "H">>)
      [] key = "end" -> Some(<<ESC, "[", "F">>)
      [] key = "pageup" -> Some(<<ESC, "[", "5", "~">>)
      [] key = "enter" -> Some(<<CR>>)
      [] OTHER -> None

\* CURSOR_KEYS_APPLICATION.get(key)
CURSOR_KEYS_APPLICATION(key) ==
    CASE key = "up" -> Some(<<ESC, "O", "A">>)
      [] key = "down" -> Some(<<ESC, "O", "B">>)
      [] key = "right" -> Some(<<ESC, "O", "C">>)
      [] key = "left" -> Some(<<ESC, "O", "D">>)
      [] key = "home" -> Some(<<ESC, "O", "H">>)
      [] key = "end" -> Some(<<ESC, "O", "F">>)
      [] OTHER -> None

\* key_event_to_stdin as it would be if it never looked at cursor_keys
key_event_to_stdin_normal(ts, event) ==
    IF ~IsNone(TERMINAL_KEY_MAP(event.key)) THEN TERMINAL_KEY_MAP(event.key)
    ELSE IF event.character # <<>> THEN Some(event.character)
    ELSE None

\* TerminalState.key_event_to_stdin: Some(sequence), or None when the key
\* produces nothing
key_event_to_stdin(ts, event) ==
    IF ts.cursor_keys /\ ~IsNone(CURSOR_KEYS_APPLICATION(event.key))
    THEN CURSOR_KEYS_APPLICATION(event.key)
    ELSE IF ~IsNone(TERMINAL_KEY_MAP(event.key)) THEN TERMINAL_KEY_MAP(event.key)
    ELSE IF event.character # <<>> THEN Some(event.character)
    ELSE None

\* events.Key(key, character)
Key(key, character) == [key |-> key, character |-> character]

KeyEvents ==
    { Key(key, <<>>) : key \in {"up", "down", "right", "left", "home", "end", "f1",
                               "shift+up", "pageup", "f24"} }
    \cup { Key("enter", <<CR>>), Key("a", <<"a">>) }

ENABLE_CURSOR_KEYS == CSI(<<"?", "1", "h">>)
DISABLE_CURSOR_KEYS == CSI(<<"?", "1", "l">>)

InitKeys ==
    /\ term = Fresh
    /\ ref = Key("a", <<"a">>)
    /\ pre = Fresh
    /\ last = NoOp
    /\ steps = 0
    /\ aux = <<>>

\* TerminalState.write of CSI ? 1 h or CSI ? 1 l
WriteKeys ==
    \E text \in {ENABLE_CURSOR_KEYS, DISABLE_CURSOR_KEYS} :
        /\ steps < MaxKeySteps
        /\ term' = write(term, text)
        /\ pre' = term
        /\ last' = [NoOp EXCEPT !.op = "write", !.text = text]
        /\ steps' = steps + 1
        /\ UNCHANGED <<ref, aux>>

\* TerminalState.key_event_to_stdin(event); ref is the event and aux what
\* the call returns
KeyEvent ==
    \E event \in KeyEvents :
        /\ steps < MaxKeySteps
        /\ aux' = key_event_to_stdin(term, event)
        /\ ref' = event
        /\ pre' = term
        /\ last' = [NoOp EXCEPT !.op = "key"]
        /\ steps' = steps + 1
        /\ UNCHANGED term

NextKeys == WriteKeys \/ KeyEvent

SpecKeys == InitKeys /\ [][NextKeys]_vars

\* the final letter of the six cursor keys
CursorKeyLetter(key) ==
    CASE key = "up" -> "A"
      [] key = "down" -> "B"
      [] key = "right" -> "C"
      [] key = "left" -> "D"
      [] key = "home" -> "H"
      [] key = "end" -> "F"

\* C20: for up, down, right, left, home and end key_event_to_stdin returns
\* ESC O letter when cursor_keys is on and the ESC [ letter of the normal
\* table when it is off; for every other key what it returns is the same
\* with cursor_keys on and off.
C20_CursorKeys ==
    last.op = "key" =>
        IF ref.key \in {"up", "down", "right", "left", "home", "end"}
        THEN /\ term.cursor_keys => aux = Some(<<ESC, "O", CursorKeyLetter(ref.key)>>)
             /\ ~term.cursor_keys =>
                   /\ aux = Some(<<ESC, "[", CursorKeyLetter(ref.key)>>)
                   /\ aux = TERMINAL_KEY_MAP(ref.key)
        ELSE /\ aux = key_event_to_stdin([term EXCEPT !.cursor_keys = TRUE], ref)
             /\ aux = key_event_to_stdin([term EXCEPT !.cursor_keys = FALSE], ref)

\* home pressed after CSI ? 1 h
C20_Witness ==
    /\ last.op = "key"
    /\ ref.key = "home"
    /\ term.cursor_keys
    /\ aux = Some(<<ESC, "O", "H">>)

----------------------------------------------------------------------------
(* SpecSizes: writes to an engine resized to small sizes, 0 among them *)

\* writes and resizes in one behaviour of SpecSizes
MaxSizeSteps == 3

SizeTexts ==
    { <<"a">>, <<"a", "b", "c">>, <<CR, LF>>, <<BS>>, CSI(<<"2", "C">>), CLEAR_SCREEN }

\* the sizes SpecSizes resizes to
SmallWidths == {0, 1, 2}
SmallHeights == {0, 2}

InitSizes ==
    /\ term = Fresh
    /\ ref = Fresh
    /\ pre = Fresh
    /\ last = NoOp
    /\ steps = 0
    /\ aux = <<>>

\* TerminalState.write(text)
WriteSized ==
    \E text \in SizeTexts :
        /\ steps < MaxSizeSteps
        /\ term.status = "ok"
        /\ term' = write(term, text)
        /\ pre' = term
        /\ last' = [NoOp EXCEPT !.op = "write", !.text = text]
        /\ steps' = steps + 1
        /\ UNCHANGED <<ref, aux>>

\* TerminalState.update_size(width, height)
ResizeSized ==
    \E width \in SmallWidths, height \in SmallHeights :
        /\ steps < MaxSizeSteps
        /\ term.status = "ok"
        /\ term' = update_size(term, width, height)
        /\ pre' = term
        /\ last' = [NoOp EXCEPT !.op = "update_size", !.width = width, !.height = height]
        /\ steps' = steps + 1
        /\ UNCHANGED <<ref, aux>>

NextSizes == WriteSized \/ ResizeSized

SpecSizes == InitSizes /\ [][NextSizes]_vars

\* C21 as stated: every call of write on a finite text returns, whatever
\* width >= 0 and height >= 0 update_size has set and wherever the cursor
\* is: no command loops for ever.
C21_WriteReturns == term.status # "hung"

----------------------------------------------------------------------------
(* SpecIndex: index and reverse index on a 4 x 4 engine holding four lines *)

\* writes in one behaviour of SpecIndex
MaxIndexSteps == 3

INDEX == <<ESC, "D">>

RowTexts == { CSI(<<row, ";", "1", "H">>) : row \in {"1", "2", "3", "4"} }

IndexTexts ==
    { Page, Page \o CSI(<<"1", ";", "4", "r">>), Page \o CSI(<<"2", ";", "3", "r">>),
      INDEX, REVERSE_INDEX } \cup RowTexts

InitIndex ==
    /\ term = FreshScreen
    /\ ref = FreshScreen
    /\ pre = FreshScreen
    /\ last = NoOp
    /\ steps = 0
    /\ aux = <<>>

\* TerminalState.write(text)
WriteIndex ==
    \E text \in IndexTexts :
        /\ steps < MaxIndexSteps
        /\ term.status = "ok"
        /\ term' = write(term, text)
        /\ pre' = term
        /\ last' = [NoOp EXCEPT !.op = "write", !.text = text]
        /\ steps' = steps + 1
        /\ UNCHANGED <<ref, aux>>

NextIndex == WriteIndex

SpecIndex == InitIndex /\ [][NextIndex]_vars

\* the rows of the screen inside the scroll margin before the last step
MarginRows ==
    get_line_range(Buf(pre).scroll_margin, pre.height)[1]
       ..get_line_range(Buf(pre).scroll_margin, pre.height)[2]

\* the row of the screen the cursor was on before the last step
CursorRowBefore == Buf(pre).cursor_line - Max(0, screen_start_line_no(pre))

\* no line has another content than before the last step
ContentKept ==
    \A i \in LineNumbers : ContentAt(Buf(term), i) = ContentAt(Buf(pre), i)

\* C22 as stated: an index or reverse index whose one-row move ends on a row
\* inside the scroll margin moves the cursor by that row and changes no line
\* content; the region is scrolled by one line, the cursor row staying as it
\* was, only when the move would cross the bottom margin (index) or the top
\* margin (reverse index).
C22_IndexMovesOrScrolls ==
    /\ Wrote(INDEX) =>
          /\ (CursorRowBefore + 1) \in MarginRows =>
                /\ Buf(term).cursor_line = Buf(pre).cursor_line + 1
                /\ ContentKept
          /\ ~ContentKept =>
                /\ CursorRowBefore \in MarginRows
                /\ (CursorRowBefore + 1) \notin MarginRows
                /\ Buf(term).cursor_line = Buf(pre).cursor_line
    /\ Wrote(REVERSE_INDEX) =>
          /\ (CursorRowBefore - 1) \in MarginRows =>
                /\ Buf(term).cursor_line = Buf(pre).cursor_line - 1
                /\ ContentKept
          /\ ~ContentKept =>
                /\ CursorRowBefore \in MarginRows
                /\ (CursorRowBefore - 1) \notin MarginRows
                /\ Buf(term).cursor_line = Buf(pre).cursor_line

----------------------------------------------------------------------------
(* SpecTokens: texts fed to one ANSIParser, the tokens it yields gathered  *)

\* feeds in one behaviour of SpecTokens
MaxTokenSteps == 2

RECURSIVE TokensFrom(_, _, _, _, _)
\* the tokens ANSIParser.parse yields for text from character number i on,
\* and the parser after them; run is the content read_until has gathered
TokensFrom(parser, text, i, run, tokens) ==
    LET flushed == IF run = <<>> THEN tokens ELSE Append(tokens, <<"content", run>>)
    IN  IF i > Len(text) THEN [parser |-> parser, tokens |-> flushed]
        ELSE IF parser.mode = "until" /\ ~IsSeparator(text[i])
        THEN TokensFrom(parser, text, i + 1, Append(run, text[i]), tokens)
        ELSE Bind(ParseStep(parser, text[i]), LAMBDA r :
             Bind(flushed \o r.tokens, LAMBDA yielded :
               TokensFrom(r.parser, text, i + 1, <<>>, yielded)))

\* the tokens of text fed to parser
Tokenize(parser, text) == TokensFrom(parser, text, 1, <<>>, <<>>)

ST == <<ESC, "\\">>

\* OSC sequences cut in payload, terminator and the text that follows
OscCases ==
    [payload : { <<"0", ";", "t">>, <<"8", ";", ";", "U">> },
     terminator : { <<BEL>>, ST },
     rest : { <<>>, <<"X">>, <<"X">> \o SGR_BOLD_RED, <<"X", LF>> }]

OscText(case) == <<ESC, "]">> \o case.payload \o case.terminator \o case.rest

InitTokens ==
    /\ term = ParserStart
    /\ ref = <<>>
    /\ pre = ParserStart
    /\ last = NoOp
    /\ steps = 0
    /\ aux = <<>>

\* ANSIParser.feed(text) of an OSC sequence and what follows it; ref is the
\* case and aux the tokens yielded
FeedOsc ==
    \E case \in OscCases :
        /\ steps < MaxTokenSteps
        /\ term' = Tokenize(term, OscText(case)).parser
        /\ aux' = Tokenize(term, OscText(case)).tokens
        /\ ref' = case
        /\ pre' = term
        /\ last' = [NoOp EXCEPT !.op = "feed", !.text = OscText(case)]
        /\ steps' = steps + 1

NextTokens == FeedOsc

SpecTokens == InitTokens /\ [][NextTokens]_vars

\* C23 as stated: an OSC sequence fed to a parser that is between tokens
\* yields one osc token whose payload is the text between ESC ] and the
\* first ST or BEL, and the text after the terminator is tokenized as the
\* same text is on its own.
C23_OscEndsAtTerminator ==
    (last.op = "feed" /\ pre = ParserStart) =>
        aux = << <<"osc", ref.payload>> >> \o Tokenize(ParserStart, ref.rest).tokens

\* ---------------------------------------------------------------------------
\* Character set designation and invocation through TerminalState.write
\* ---------------------------------------------------------------------------

MaxCharsetSteps == 2

\* ESC <introducer> <character set>
Designate(introducer, character_set) == <<ESC, introducer, character_set>>

DesignateTexts ==
    {Designate(introducer, character_set) :
        introducer \in {"(", ")", "*", "+"}, character_set \in {"0", "B"}}

\* ESC n, ESC o, ESC ~, ESC }, ESC |, ESC N, ESC O
InvokeLetters == {"n", "o", "~", "}", "|", "N", "O"}

InvokeTexts == {<<ESC, letter>> : letter \in InvokeLetters}

CharsetTexts == DesignateTexts \cup InvokeTexts \cup {<<"q">>, <<"x", "q">>}

InitCharset ==
    /\ term = Fresh
    /\ ref = Fresh
    /\ pre = Fresh
    /\ last = NoOp
    /\ steps = 0
    /\ aux = <<>>

\* TerminalState.write(text); aux keeps the text of the write before it
WriteCharset ==
    \E text \in CharsetTexts :
        /\ steps < MaxCharsetSteps
        /\ term.status = "ok"
        /\ term' = write(term, text)
        /\ pre' = term
        /\ last' = [NoOp EXCEPT !.op = "write", !.text = text]
        /\ aux' = last.text
        /\ steps' = steps + 1
        /\ UNCHANGED ref

NextCharset == WriteCharset

SpecCharset == InitCharset /\ [][NextCharset]_vars

\* C24: after writing ESC, an introducer and a character set identifier, the
\* DEC slot selected by the introducer holds the identifier; and a "q" written
\* right after ESC ( 0 on a fresh engine is stored translated through the
\* table of character set "0".
C24_Designation ==
    /\ \A text \in DesignateTexts :
         Wrote(text) =>
             term.dec_state.slots[Val(DEC_SLOTS(text[2])) + 1] = text[3]
    /\ (Wrote(<<"q">>) /\ steps = 2 /\ aux = Designate("(", "0")) =>
           /\ ~IsNone(LastCell(term))
           /\ Val(LastCell(term)).ch = TranslateChar("graphics", "q")

\* the DECState field an invocation letter is to set, and the value it is to
\* hold afterwards
InvokedField(dec_state, letter) ==
    CASE letter \in {"n", "o"} -> dec_state.gl_slot
      [] letter \in {"~", "}", "|"} -> dec_state.gr_slot
      [] OTHER -> dec_state.shift

InvokedValue(letter) ==
    CASE letter = "n" -> 2
      [] letter = "o" -> 3
      [] letter = "~" -> 1
      [] letter = "}" -> 2
      [] letter = "|" -> 3
      [] letter = "N" -> Some(2)
      [] OTHER -> Some(3)

\* C25: after writing ESC n or ESC o the GL slot index is 2 or 3, after ESC ~,
\* ESC } or ESC | the GR slot index is 1, 2 or 3, and after ESC N or ESC O a
\* single shift to G2 or G3 is pending.
C25_Invocation ==
    \A letter \in InvokeLetters :
        Wrote(<<ESC, letter>>) =>
            InvokedField(term.dec_state, letter) = InvokedValue(letter)

\* ---------------------------------------------------------------------------
\* Text written inside a line, in replace mode and in insert mode
\* ---------------------------------------------------------------------------

MaxInsertSteps == 3

\* the texts of content tokens
InsertContents == {<<"X">>, <<"X", "Y", "Z">>, <<"a", "b", "c">>}

InsertTexts == InsertContents \cup {<<CR>>, <<BS>>, CSI(<<"2", "G">>)}

\* TerminalState(3, 2) with the replace_mode attribute at either value: the
\* text branch of the ANSICursor case reads it as an input
InitInsert ==
    /\ term \in {[Fresh EXCEPT !.replace_mode = replace_mode] : replace_mode \in BOOLEAN}
    /\ ref = term
    /\ pre = term
    /\ last = NoOp
    /\ steps = 0
    /\ aux = <<>>

\* TerminalState.write(text)
WriteInsert ==
    \E text \in InsertTexts :
        /\ steps < MaxInsertSteps
        /\ term.status = "ok"
        /\ term' = write(term, text)
        /\ pre' = term
        /\ last' = [NoOp EXCEPT !.op = "write", !.text = text]
        /\ steps' = steps + 1
        /\ UNCHANGED <<ref, aux>>

NextInsert == WriteInsert

SpecInsert == InitInsert /\ [][NextInsert]_vars

\* the number of the line the cursor of a buffer is on
CursorLineNo(buffer) == buffer.folded_lines[buffer.cursor_line + 1].line_no

\* the last step wrote a content text with the cursor strictly inside a line
WroteInside ==
    /\ last.op = "write"
    /\ last.text \in InsertContents
    /\ term.status = "ok"
    /\ Buf(pre).cursor_line < Len(Buf(pre).folded_lines)
    /\ get_cursor_line_offset(Buf(pre)) >= 0
    /\ get_cursor_line_offset(Buf(pre))
         < Len(Buf(pre).lines[CursorLineNo(Buf(pre)) + 1].content)

\* C27: n characters written at offset c strictly inside a line of length m
\* leave the characters before c as they were and stand at offsets c..c+n-1;
\* in replace mode the length becomes max(m, c+n) and the characters from c+n
\* on stay where they were, in insert mode the length becomes m+n and the
\* former characters from c on stand n places to the right.
C27_ReplaceOrInsert ==
    WroteInside =>
        LET line_no == CursorLineNo(Buf(pre))
            c == get_cursor_line_offset(Buf(pre))
            n == Len(last.text)
            before == Buf(pre).lines[line_no + 1].content
            after == Buf(term).lines[line_no + 1].content
            m == Len(before)
        IN  /\ Len(after) = IF pre.replace_mode THEN Max(m, c + n) ELSE m + n
            /\ \A i \in 1..c : after[i] = before[i]
            /\ \A i \in 1..n : after[c + i].ch = last.text[i]
            /\ pre.replace_mode => \A i \in (c + n + 1)..m : after[i] = before[i]
            /\ ~pre.replace_mode => \A i \in (c + 1)..m : after[i + n] = before[i]

\* replace mode, the text reaching past the end of the line
C27_Witness ==
    /\ WroteInside
    /\ pre.replace_mode
    /\ get_cursor_line_offset(Buf(pre)) + Len(last.text)
         > Len(Buf(pre).lines[CursorLineNo(Buf(pre)) + 1].content)

\* insert mode, characters shifted to the right
C27_InsertWitness ==
    /\ WroteInside
    /\ ~pre.replace_mode
    /\ Len(Buf(term).lines[CursorLineNo(Buf(pre)) + 1].content) = 6

\* ---------------------------------------------------------------------------
\* Mouse modes written as private-mode sequences
\* ---------------------------------------------------------------------------

MaxMouseSteps == 2

MouseMode(digits) == <<"1", "0">> \o digits

TrackingModes == {MouseMode(<<"0", "0">>), MouseMode(<<"0", "2">>), MouseMode(<<"0", "3">>)}
FormatModes == {MouseMode(<<"0", "6">>), MouseMode(<<"1", "5">>)}
FOCUS_EVENTS_MODE == MouseMode(<<"0", "4">>)
ALTERNATE_SCROLL_MODE == MouseMode(<<"0", "7">>)

AllMouseModes == TrackingModes \cup FormatModes \cup {FOCUS_EVENTS_MODE, ALTERNATE_SCROLL_MODE}

\* the mode lists written: every single mode, and pairs of modes
MouseModeLists ==
    {<<mode>> : mode \in AllMouseModes}
    \cup {<<first, second>> :
            first \in {MouseMode(<<"0", "0">>), FOCUS_EVENTS_MODE, MouseMode(<<"0", "6">>)},
            second \in {MouseMode(<<"0", "3">>), ALTERNATE_SCROLL_MODE, MouseMode(<<"1", "5">>)}}

\* ESC [ ? m1 ; m2 h, or l
MouseText(modes, final) ==
    CSI(<<"?">> \o (IF Len(modes) = 1 THEN modes[1] ELSE modes[1] \o <<";">> \o modes[2])
          \o <<final>>)

MouseTexts == {MouseText(modes, final) : modes \in MouseModeLists, final \in {"h", "l"}}

InitMouse ==
    /\ term = Fresh
    /\ ref = Fresh
    /\ pre = Fresh
    /\ last = NoOp
    /\ steps = 0
    /\ aux = <<>>

\* TerminalState.write(text)
WriteMouse ==
    \E text \in MouseTexts :
        /\ steps < MaxMouseSteps
        /\ term.status = "ok"
        /\ term' = write(term, text)
        /\ pre' = term
        /\ last' = [NoOp EXCEPT !.op = "write", !.text = text]
        /\ steps' = steps + 1
        /\ UNCHANGED <<ref, aux>>

NextMouse == WriteMouse

SpecMouse == InitMouse /\ [][NextMouse]_vars

\* the tracking a tracking mode stands for, the format a format mode stands for
TrackingOf(mode) ==
    CASE mode = MouseMode(<<"0", "0">>) -> "button"
      [] mode = MouseMode(<<"0", "2">>) -> "drag"
      [] OTHER -> "all"

FormatOf(mode) == IF mode = MouseMode(<<"0", "6">>) THEN "sgr" ELSE "urxvt"

\* the last mode of the list that is one of the given modes, None without one
LastListed(modes, among) ==
    LET listed == {i \in 1..Len(modes) : modes[i] \in among}
    IN  IF listed = {} THEN None
        ELSE Some(modes[CHOOSE i \in listed : \A j \in listed : j <= i])

\* the mouse-tracking state the claim describes after modes were written with
\* the final byte; a format mode written with l leaves the format open
MouseStateAsClaimed(before, after, modes, enable) ==
    LET tracking == LastListed(modes, TrackingModes)
        format == LastListed(modes, FormatModes)
        focus_events == LastListed(modes, {FOCUS_EVENTS_MODE})
        alternate_scroll == LastListed(modes, {ALTERNATE_SCROLL_MODE})
    IN  /\ after.tracking = IF IsNone(tracking) THEN before.tracking
                            ELSE IF enable THEN TrackingOf(Val(tracking)) ELSE "none"
        /\ IsNone(format) => after.format = before.format
        /\ (~IsNone(format) /\ enable) => after.format = FormatOf(Val(format))
        /\ after.focus_events = IF IsNone(focus_events) THEN before.focus_events ELSE enable
        /\ after.alternate_scroll =
               IF IsNone(alternate_scroll) THEN before.alternate_scroll ELSE enable

\* C28: ESC [ ? m1;m2 h or l listing mouse modes decodes to one MouseTracking
\* command, and after it is written tracking is button/drag/all (h) or none
\* (l) when 1000/1002/1003 is listed, focus_events and alternate_scroll are
\* true (h) or false (l) when 1004 and 1007 are listed, the format is sgr or
\* urxvt when 1006 or 1015 is listed with h, every field whose mode is not
\* listed is as it was, and nothing else of the engine has changed.
C28_MouseModes ==
    \A modes \in MouseModeLists, final \in {"h", "l"} :
        Wrote(MouseText(modes, final)) =>
            /\ CommandOf(MouseText(modes, final)).kind = "mouse"
            /\ MouseStateAsClaimed(pre.mouse_tracking_state, term.mouse_tracking_state,
                                   modes, final = "h")
            /\ [term EXCEPT !.mouse_tracking_state = pre.mouse_tracking_state] = pre

\* button tracking and the urxvt format are on; ESC [ ? 1004 ; 1003 h has set
\* focus_events and tracking to all, and has left the format as it was
C28_Witness ==
    /\ Wrote(MouseText(<<FOCUS_EVENTS_MODE, MouseMode(<<"0", "3">>)>>, "h"))
    /\ pre.mouse_tracking_state.tracking = "button"
    /\ pre.mouse_tracking_state.format = "urxvt"
    /\ ~pre.mouse_tracking_state.focus_events
    /\ term.mouse_tracking_state.tracking = "all"
    /\ term.mouse_tracking_state.format = "urxvt"
    /\ term.mouse_tracking_state.focus_events

\* ---------------------------------------------------------------------------
\* The updates counter and the updates stamps of lines and buffers
\* ---------------------------------------------------------------------------

\* every updates value an engine holds: the counter, the stamps of both
\* buffers, of their lines and of the folds of their lines
UpdatesOfBuffer(buffer) ==
    {buffer.updates}
    \cup {buffer.lines[i].updates : i \in 1..Len(buffer.lines)}
    \cup UNION {{buffer.lines[i].folds[k].updates : k \in 1..Len(buffer.lines[i].folds)} :
                   i \in 1..Len(buffer.lines)}
    \cup {buffer.folded_lines[k].updates : k \in 1..Len(buffer.folded_lines)}

AllUpdates(ts) ==
    {ts.updates} \cup UpdatesOfBuffer(ts.scrollback_buffer)
                 \cup UpdatesOfBuffer(ts.alternate_buffer)

\* a fold without its stamp
FoldShape(fold) ==
    [content |-> fold.content, line_no |-> fold.line_no,
     line_offset |-> fold.line_offset, offset |-> fold.offset]

\* content, folds and fill style of a line
LineShape(line) ==
    [content |-> line.content, style |-> line.style,
     folds |-> [k \in 1..Len(line.folds) |-> FoldShape(line.folds[k])]]

\* the lines of the buffer `after` whose content, folds or fill style is not
\* what the line of that number had in `before`; a line `before` did not hold
\* is among them
ChangedLines(before, after) ==
    {i \in 1..Len(after.lines) :
        \/ i > Len(before.lines)
        \/ LineShape(after.lines[i]) # LineShape(before.lines[i])}

\* C29: the global updates counter never decreases, and a line whose content,
\* folds or fill style an operation has changed carries afterwards an updates
\* value greater than every updates value the engine held before it.
C29_LineUpdates ==
    (last.op # "init" /\ term.status = "ok") =>
        /\ term.updates >= pre.updates
        /\ \A name \in {"scrollback_buffer", "alternate_buffer"} :
             \A i \in ChangedLines(pre[name], term[name]) :
                \A before \in AllUpdates(pre) : term[name].lines[i].updates > before

\* a resize has refolded an existing line (reflow), and the line is stamped
C29_Witness ==
    /\ last.op = "update_size"
    /\ term.status = "ok"
    /\ \E i \in ChangedLines(pre.scrollback_buffer, term.scrollback_buffer) :
          /\ i <= Len(pre.scrollback_buffer.lines)
          /\ Len(term.scrollback_buffer.lines[i].folds) = 2
          /\ Len(pre.scrollback_buffer.lines[i].folds) = 1

\* C30: the updates stamp of a buffer never decreases, and when a write has
\* changed the content of a line the active buffer already held, without
\* adding a line, the stamp of that buffer is greater than it was.
C30_BufferUpdates ==
    (last.op # "init" /\ term.status = "ok") =>
        /\ term.scrollback_buffer.updates >= pre.scrollback_buffer.updates
        /\ term.alternate_buffer.updates >= pre.alternate_buffer.updates
        /\ ( /\ last.op = "write"
             /\ term.alternate_screen = pre.alternate_screen
             /\ Len(Buf(term).lines) = Len(Buf(pre).lines)
             /\ \E i \in 1..Len(Buf(pre).lines) :
                   Buf(term).lines[i].content # Buf(pre).lines[i].content )
           => Buf(term).updates > Buf(pre).updates

\* ---------------------------------------------------------------------------
\* Deleting characters and erasing in a line
\* ---------------------------------------------------------------------------

MaxEraseSteps == 3

DELETE_CHARACTER == CSI(<<"P">>)
DELETE_2_CHARACTERS == CSI(<<"2", "P">>)

DeleteTexts == {DELETE_CHARACTER, CSI(<<"1", "P">>), DELETE_2_CHARACTERS}

ERASE_TO_END == CSI(<<"K">>)
ERASE_TO_BEGINNING == CSI(<<"1", "K">>)
ERASE_LINE == CSI(<<"2", "K">>)

EraseLineTexts == {ERASE_TO_END, CSI(<<"0", "K">>), ERASE_TO_BEGINNING, ERASE_LINE}

EraseTexts ==
    {<<"a", "b", "c">>, <<"a", "b", "c", "d", "e">>, <<CR>>, CSI(<<"2", "G">>),
     CSI(<<"3", "G">>), CSI(<<"J">>), CSI(<<"0", "J">>)} \cup DeleteTexts \cup EraseLineTexts

InitErase ==
    /\ term = FreshScreen
    /\ ref = FreshScreen
    /\ pre = FreshScreen
    /\ last = NoOp
    /\ steps = 0
    /\ aux = <<>>

\* TerminalState.write(text)
WriteErase ==
    \E text \in EraseTexts :
        /\ steps < MaxEraseSteps
        /\ term.status = "ok"
        /\ term' = write(term, text)
        /\ pre' = term
        /\ last' = [NoOp EXCEPT !.op = "write", !.text = text]
        /\ steps' = steps + 1
        /\ UNCHANGED <<ref, aux>>

NextErase == WriteErase

SpecErase == InitErase /\ [][NextErase]_vars

\* the character shown at offset i of a content, a blank past its end
CharAt(content, i) == IF i < Len(content) THEN content[i + 1].ch ELSE " "

\* the cursor stood on a line of the buffer, at offset 0 or more
OnLine(ts) ==
    /\ Buf(ts).cursor_line < Len(Buf(ts).folded_lines)
    /\ get_cursor_line_offset(Buf(ts)) >= 0

\* the content of the cursor's line before the last step, and the content of
\* the line of that number after it
LineBefore == Buf(pre).lines[CursorLineNo(Buf(pre)) + 1].content
LineAfter == Buf(term).lines[CursorLineNo(Buf(pre)) + 1].content

\* the offsets of the cursor's line before and after the last step
Offsets == 0..(Max(Max(Len(LineBefore), Len(LineAfter)), pre.width) - 1)

\* C31: CSI n P with the cursor at offset c deletes the n characters at
\* offsets c..c+n-1: the characters before c stay, each character that
\* followed the deleted ones stands n places to the left, blanks follow.
C31_DeleteCharacters ==
    \A text \in DeleteTexts :
        (Wrote(text) /\ OnLine(pre)) =>
            LET c == get_cursor_line_offset(Buf(pre))
                n == CommandOf(text).replace[1][2][1]
            IN  \A i \in Offsets :
                    CharAt(LineAfter, i) = IF i < c THEN CharAt(LineBefore, i)
                                           ELSE CharAt(LineBefore, i + n)

\* C32: CSI 0 K blanks the offsets from the cursor on, CSI 1 K the offsets up
\* to and including the cursor, CSI 2 K all of them; each character at an
\* offset outside the erased range stands where it stood.
C32_EraseInLine ==
    \A text \in EraseLineTexts :
        (Wrote(text) /\ OnLine(pre)) =>
            LET c == get_cursor_line_offset(Buf(pre))
                erased(i) == CASE text = ERASE_TO_BEGINNING -> i <= c
                               [] text = ERASE_LINE -> TRUE
                               [] OTHER -> i >= c
            IN  \A i \in Offsets :
                    CharAt(LineAfter, i) = IF erased(i) THEN " " ELSE CharAt(LineBefore, i)

ERASE_BELOW == CSI(<<"J">>)

EraseBelowTexts == {ERASE_BELOW, CSI(<<"0", "J">>)}

\* every character of a content is a blank
Blank(content) == \A i \in 1..Len(content) : content[i].ch = " "

\* C33: after CSI J or CSI 0 J the cursor's line is blank from the cursor on
\* and every line below it is blank, the lines above and the characters
\* before the cursor are as they were, and the number of lines, the width and
\* the height are as they were.
C33_ClearToEnd ==
    \A text \in EraseBelowTexts :
        (Wrote(text) /\ OnLine(pre)) =>
            LET c == get_cursor_line_offset(Buf(pre))
                line_no == CursorLineNo(Buf(pre))
            IN  /\ Len(Buf(term).lines) = Len(Buf(pre).lines)
                /\ term.width = pre.width /\ term.height = pre.height
                /\ \A i \in 1..Len(Buf(pre).lines) :
                     CASE i - 1 < line_no ->
                            Buf(term).lines[i].content = Buf(pre).lines[i].content
                       [] i - 1 = line_no ->
                            \A k \in Offsets :
                               CharAt(LineAfter, k) =
                                   IF k < c THEN CharAt(LineBefore, k) ELSE " "
                       [] OTHER -> Blank(Buf(term).lines[i].content)

\* ---------------------------------------------------------------------------
\* Control sequences that do not fit the grammar of a CSI
\* ---------------------------------------------------------------------------

MaxMalformedSteps == 2

\* ESC [ followed by bytes that are not parameter bytes, then intermediate
\* bytes, then one final byte: a parameter byte after an intermediate byte,
\* and a line feed among the parameters
MalformedCsi ==
    {CSI(<<"1", " ", "2", "m">>), CSI(<<"1", " ", "2", "A">>),
     CSI(<<"!", "1", "H">>), CSI(<<"1", LF, "A">>)}

\* the texts that follow a malformed sequence in the same write
FollowingTexts == {<<>>, <<"x">>, <<LF, "x">>}

PlainTexts == {<<"a", "b">>, <<CR, LF>>, SGR_BOLD_RED}

InitMalformed ==
    /\ term = Fresh
    /\ ref = <<>>
    /\ pre = Fresh
    /\ last = NoOp
    /\ steps = 0
    /\ aux = <<>>

\* TerminalState.write(csi + rest): ref is the malformed sequence, aux the
\* text that follows it
WriteMalformed ==
    \E csi \in MalformedCsi, rest \in FollowingTexts :
        /\ steps < MaxMalformedSteps
        /\ term.status = "ok"
        /\ term' = write(term, csi \o rest)
        /\ pre' = term
        /\ last' = [NoOp EXCEPT !.op = "malformed", !.text = csi \o rest]
        /\ ref' = csi
        /\ aux' = rest
        /\ steps' = steps + 1

\* TerminalState.write(text)
WritePlain ==
    \E text \in PlainTexts :
        /\ steps < MaxMalformedSteps
        /\ term.status = "ok"
        /\ term' = write(term, text)
        /\ pre' = term
        /\ last' = [NoOp EXCEPT !.op = "write", !.text = text]
        /\ steps' = steps + 1
        /\ UNCHANGED <<ref, aux>>

NextMalformed == WriteMalformed \/ WritePlain

SpecMalformed == InitMalformed /\ [][NextMalformed]_vars

\* C34: a CSI that does not fit the grammar yields no token, and a write of
\* it followed by a text leaves the engine as the write of that text alone
\* leaves it (no command, no change of state, the text processed as usual).
C34_MalformedCsi ==
    (last.op = "malformed") =>
        /\ Tokenize(pre.stream.parser, ref).tokens = <<>>
        /\ term = write(pre, aux)

\* ---------------------------------------------------------------------------
\* The cursor after a content run
\* ---------------------------------------------------------------------------

\* the content runs among the texts of Spec
ContentRuns == {<<"x">>, Hello}

\* C35: a content run of n characters written with the cursor at offset p of
\* line l, p at most the length of the line, stands at offsets p..p+n-1 of
\* line l afterwards and leaves the cursor at offset p+n of line l, with
\* auto_wrap on and off.
C35_ContentRun ==
    \A text \in ContentRuns :
        ( /\ Wrote(text)
          /\ OnLine(pre)
          /\ pre.width > 0
          /\ get_cursor_line_offset(Buf(pre)) <= Len(LineBefore) ) =>
            LET p == get_cursor_line_offset(Buf(pre))
                n == Len(text)
            IN  /\ Len(LineAfter) >= p + n
                /\ \A i \in 1..n : LineAfter[p + i].ch = text[i]
                /\ BufferCursor(Buf(term)) = <<CursorLineNo(Buf(pre)), p + n>>

\* C36: the cursor column of neither buffer is ever negative.
C36_ColumnNotNegative ==
    /\ term.scrollback_buffer.cursor_offset >= 0
    /\ term.alternate_buffer.cursor_offset >= 0

\* ---------------------------------------------------------------------------
\* Resizes while the alternate screen is active
\* ---------------------------------------------------------------------------

MaxAlternateSteps == 4

AlternateTexts == {<<"a", "b", "c">>, <<CR, LF>>, ENTER_ALTERNATE, LEAVE_ALTERNATE}

AlternateWidths == {2, 4}

InitAlternate ==
    /\ term = FreshScreen
    /\ ref = FreshScreen
    /\ pre = FreshScreen
    /\ last = NoOp
    /\ steps = 0
    /\ aux = FALSE

\* TerminalState.write(text); aux tells whether the width has changed since
\* the alternate screen was entered
WriteAlternate ==
    \E text \in AlternateTexts :
        /\ steps < MaxAlternateSteps
        /\ term.status = "ok"
        /\ term' = write(term, text)
        /\ pre' = term
        /\ last' = [NoOp EXCEPT !.op = "write", !.text = text]
        /\ aux' = (aux /\ term.alternate_screen /\ text # ENTER_ALTERNATE)
        /\ steps' = steps + 1
        /\ UNCHANGED ref

\* TerminalState.update_size(width=width)
ResizeAlternate ==
    \E width \in AlternateWidths :
        /\ steps < MaxAlternateSteps
        /\ term.status = "ok"
        /\ term' = update_size(term, width, term.height)
        /\ pre' = term
        /\ last' = [NoOp EXCEPT !.op = "update_size", !.width = width,
                                !.height = term.height]
        /\ aux' = (term.alternate_screen /\ (aux \/ width # term.width))
        /\ steps' = steps + 1
        /\ UNCHANGED ref

NextAlternate == WriteAlternate \/ ResizeAlternate

SpecAlternate == InitAlternate /\ [][NextAlternate]_vars

\* the number of folds of a line of length L at a width, auto_wrap on
FoldCount(L, width) == Max(1, (L + width - 1) \div width)

\* C37: when the alternate screen is left after a resize that changed the
\* width while it was active, every line of the scrollback buffer is folded
\* at the current width.
C37_ReflowBoth ==
    (Wrote(LEAVE_ALTERNATE) /\ pre.alternate_screen /\ aux /\ term.auto_wrap) =>
        \A i \in 1..Len(term.scrollback_buffer.lines) :
            Len(term.scrollback_buffer.lines[i].folds)
                = FoldCount(Len(term.scrollback_buffer.lines[i].content), term.width)

----------------------------------------------------------------------------
(* C38: the default scroll region *)

\* the scroll margin of a buffer whose margin was never assigned
DefaultMargin == NewBuffer.scroll_margin

\* the last step wrote CSI 1 S to a buffer that has its default scroll margin
\* and whose lines are the rows of the screen, one row each
ScrolledDefault ==
    /\ Wrote(CSI(<<"1", "S">>))
    /\ Buf(pre).scroll_margin = DefaultMargin
    /\ Len(Buf(pre).lines) <= pre.height
    /\ Len(Buf(pre).folded_lines) = Len(Buf(pre).lines)

\* C38: on a buffer whose scroll margin has never been set, CSI 1 S moves the
\* content of every screen row 1..height-1 up by one row and blanks row
\* height-1: the default scroll region is the whole screen.
C38_DefaultRegion ==
    ScrolledDefault =>
        /\ \A row \in 1..(pre.height - 1) :
              ContentAt(Buf(term), row - 1) = ContentAt(Buf(pre), row)
        /\ ContentAt(Buf(term), pre.height - 1) = EMPTY_LINE

----------------------------------------------------------------------------
(* SpecSgr: SGR sequences of several parameters and text written to a      *)
(* fresh 80x24 engine                                                      *)

\* texts written in one behaviour of SpecSgr
MaxSgrSteps == 4

SGR_RESET_RED == CSI(<<"0", ";", "3", "1", "m">>)
SGR_RED_RESET == CSI(<<"3", "1", ";", "0", "m">>)
SGR_BOLD_RESET_GREEN == CSI(<<"1", ";", "0", ";", "3", "2", "m">>)

\* the SGR sequences written and the parameters each one carries
SgrParameters ==
    { <<SGR_BOLD_RED, <<1, 31>> >>, <<SGR_GREEN, <<32>> >>,
      <<SGR_RESET_RED, <<0, 31>> >>, <<SGR_RED_RESET, <<31, 0>> >>,
      <<SGR_BOLD_RESET_GREEN, <<1, 0, 32>> >> }

SgrSequences == { entry[1] : entry \in SgrParameters }

InitSgr ==
    /\ term = NewTerminalState(80, 24)
    /\ ref = Fresh
    /\ pre = term
    /\ last = NoOp
    /\ steps = 0
    /\ aux = <<>>

\* TerminalState.write(text)
WriteSgr ==
    \E text \in SgrSequences \cup {X} :
        /\ steps < MaxSgrSteps
        /\ term.status = "ok"
        /\ term' = write(term, text)
        /\ pre' = term
        /\ last' = [NoOp EXCEPT !.op = "write", !.text = text]
        /\ steps' = steps + 1
        /\ UNCHANGED <<ref, aux>>

NextSgr == WriteSgr

SpecSgr == InitSgr /\ [][NextSgr]_vars

RECURSIVE LeftToRight(_, _)
\* the pen after the parameters are applied to it one by one from the left:
\* a 0 makes it the null style, another parameter adds its attribute
LeftToRight(codes, style) ==
    IF codes = <<>> THEN style
    ELSE LeftToRight(Tail(codes),
                     IF Head(codes) = 0 THEN NULL_STYLE
                     ELSE IF IsNone(SGR_STYLE_MAP(Head(codes))) THEN style
                     ELSE StyleAdd(style, Val(SGR_STYLE_MAP(Head(codes)))))

RED == StyleWith("foreground", <<1>>)

\* C39: the parameters of one SGR sequence are applied left to right, a 0
\* resetting the pen and the parameters after it still applying: after
\* CSI 0;31 m the pen has a red foreground and no other attribute.
C39_SgrLeftToRight ==
    /\ \A entry \in SgrParameters :
          Wrote(entry[1]) =>
              /\ term.stream.style = LeftToRight(entry[2], pre.stream.style)
              /\ term.style = LeftToRight(entry[2], pre.style)
    /\ Wrote(SGR_RESET_RED) => term.style = RED

----------------------------------------------------------------------------
(* C40: the folds of a line name the line *)

\* every fold of every line of the buffer carries the number of its line and
\* its own index among the folds of that line
FoldsNameTheirLine(buffer) ==
    \A i \in 1..Len(buffer.lines) :
        \A k \in 1..Len(buffer.lines[i].folds) :
            /\ buffer.lines[i].folds[k].line_no = i - 1
            /\ buffer.lines[i].folds[k].line_offset = k - 1

\* C40: in every reachable state, for each buffer and each line index i, the
\* k-th entry of lines[i].folds has line_no = i and fold index = k, for every
\* terminal width >= 0 and either auto_wrap setting.
C40_FoldsNameTheirLine ==
    term.status = "ok" =>
        /\ FoldsNameTheirLine(term.scrollback_buffer)
        /\ FoldsNameTheirLine(term.alternate_buffer)

====
